---- MODULE Spec2Model ----
(***************************************************************************)
(* Model of the mock-interview backend (backend/app): the interview state  *)
(* machine, the evaluation engine, the per-session orchestrator and the    *)
(* websocket message handlers that drive them.                             *)
(*                                                                         *)
(* Nine specifications:                                                    *)
(*   SpecSM  one InterviewStateMachine driven through its own API          *)
(*           (constructor, transition_to, reset);                          *)
(*   SpecLog the same machine driven by transition_to only;                *)
(*   SpecEval  the evaluation engine's aggregation functions applied to    *)
(*           lists of evaluations, score mappings and overall scores;      *)
(*   SpecAPI one orchestrator driven through generate_first_question and   *)
(*           handle_user_answer, the collaborators succeeding;             *)
(*   Spec    one session id: the inbound messages START_INTERVIEW,         *)
(*           TRANSCRIBE, SILENCE_DETECTED, END_INTERVIEW and PING, each    *)
(*           handler one atomic action (the design handles the messages    *)
(*           of one session one at a time), with every orchestrator and    *)
(*           evaluation-engine call it makes inside the action;            *)
(*   SpecShort  Spec for the sessions of at most WsQuestions questions;    *)
(*   SpecWS  websocket_interview_endpoint for one session id: connect,     *)
(*           the receive loop with well-formed and malformed messages,     *)
(*           the socket breaking, disconnect and shutdown;                 *)
(*   SpecTwo the endpoint for two session ids over the manager's tables,   *)
(*           their steps interleaved;                                      *)
(*   SpecDup two WebSockets opened under one session id, each with its     *)
(*           own endpoint coroutine, over the id's one handle.             *)
(*                                                                         *)
(* Texts are sequences of characters.  Question texts come from the        *)
(* question collaborator and are opaque: a question is modelled by the     *)
(* generator that produced it ("first", "next", "followup").  Scores are   *)
(* integers 0..10 and their means exact rationals <<numerator,             *)
(* denominator>> in lowest terms.  Timestamps, job role and description    *)
(* and the orchestrator's covered_topics, question_types_asked, weak_areas *)
(* and strengths lists are left out: nothing modelled here reads them.     *)
(* The weakness/strength tags of an evaluation are read by                 *)
(* generate_evaluation_insights only and are modelled in SpecEval.         *)
(*                                                                         *)
(* handlers.py keeps the orchestrators in manager.orchestrators, a table   *)
(* that manager.py (ConnectionManager.__init__) does not create; the table *)
(* is modelled, from the specification's "ad-hoc orchestrator table keyed  *)
(* by session id", as present and initially without an entry.  SpecWS      *)
(* starts from both managers: the one with the table and the one           *)
(* __init__ builds, where reading manager.orchestrators raises             *)
(* AttributeError inside the handler's try.                                *)
(***************************************************************************)
EXTENDS Integers, Sequences, FiniteSets, TLC

VARIABLES
    machine,       \* SpecSM: an InterviewStateMachine (current_state, transition_history, state_entry_times)
    tt_ret,        \* SpecSM: the last API call on machine and its outcome
    session,       \* manager.sessions[id]: the InterviewSession, or None
    orchestrator,  \* manager.orchestrators[id]: the InterviewOrchestrator, or None
    outbox,        \* the messages the last handler sent to the client, in order
    sm_calls,      \* the transition_to calls the last handler made on the orchestrator's machine
    pa_ret,        \* what the last handler's process_answer call returned, or None
    completed,     \* TRUE iff the last handler ran complete_interview to its end
    inbound,       \* the type of the last inbound message handled (or the last
                   \* transport event of SpecWS), or None
    well_formed,   \* TRUE iff the last inbound message passed its handler's validation
    failed,        \* TRUE iff a collaborator call of the last handler raised
    connection,    \* TRUE iff manager.active_connections holds the id's WebSocket
    socket,        \* the WebSocket: "open", or "broken" once the peer is gone
    receiving,     \* TRUE while websocket_interview_endpoint's receive loop runs
    has_orchestrators,  \* TRUE iff the manager has an orchestrators attribute
    disconnects,   \* the manager.disconnect calls for the id since it connected
    registry,      \* SpecTwo: the manager's tables over the ids of Ids, with each
                   \* id's WebSocket
    scoring,       \* SpecEval: the last call on the evaluation engine, with its
                   \* arguments and what it returned, or None
    api,           \* SpecAPI: the handle_user_answer calls made on the orchestrator
                   \* since generate_first_question, and what the last one returned
    endpoints      \* SpecDup: the WebSockets opened under one session id, and the
                   \* one manager.active_connections holds for it

vars == <<machine, tt_ret, session, orchestrator, outbox, sm_calls, pa_ret, completed, inbound,
          well_formed, failed, connection, socket, receiving, has_orchestrators, disconnects,
          registry, scoring, api, endpoints>>

\* Optional values (Python's None): the empty tuple, or a one-element tuple.
None == <<>>

Some(v) == <<v>>

The(o) == o[1]

(***************************************************************************)
(* Bounds of the model.                                                    *)
(***************************************************************************)
MaxHistory == 3     \* SpecSM: transition_to calls that succeed on one machine
MaxAnswers == 2     \* Spec: recorded answers of a session when a message arrives
MaxQuestions == 3   \* Spec: asked questions of a session when a message arrives
MaxCount == 2       \* Spec: largest question_count a START_INTERVIEW carries

(***************************************************************************)
(* Text: Python str as a sequence of characters.                           *)
(***************************************************************************)
Space == " "

RECURSIVE LStrip(_)
LStrip(s) == IF s # <<>> /\ Head(s) = Space THEN LStrip(Tail(s)) ELSE s

RECURSIVE RStrip(_)
RStrip(s) ==
    IF s # <<>> /\ s[Len(s)] = Space THEN RStrip(SubSeq(s, 1, Len(s) - 1)) ELSE s

\* str.strip()
Strip(s) == RStrip(LStrip(s))

\* The transcripts a TRANSCRIBE message carries: empty, or a word.
Transcripts == { <<>>, <<"a">> }

(***************************************************************************)
(* Exact rationals for the float arithmetic of the evaluation engine.      *)
(***************************************************************************)
RECURSIVE GCD(_, _)
GCD(a, b) == IF b = 0 THEN a ELSE GCD(b, a % b)

Rat(n, d) == LET g == GCD(n, d) IN <<n \div g, d \div g>>

RatAdd(x, y) == Rat(x[1] * y[2] + y[1] * x[2], x[2] * y[2])

RatMul(x, y) == Rat(x[1] * y[1], x[2] * y[2])

RatDiv(x, y) == Rat(x[1] * y[2], x[2] * y[1])

RatLeq(x, y) == x[1] * y[2] <= y[1] * x[2]

RatMax(x, y) == IF RatLeq(x, y) THEN y ELSE x

RatMin(x, y) == IF RatLeq(x, y) THEN x ELSE y

RECURSIVE RatSum(_)
RatSum(xs) == IF xs = <<>> THEN <<0, 1>> ELSE RatAdd(Head(xs), RatSum(Tail(xs)))

(***************************************************************************)
(* models/interview.py: InterviewState.                                    *)
(***************************************************************************)
InterviewState ==
    { "SETUP", "ASK_QUESTION", "PLAY_TTS", "LISTEN", "SILENCE_DETECT", "TRANSCRIBE",
      "EVALUATE", "FOLLOWUP", "NEXT_QUESTION", "FINAL_EVALUATION", "REPORT",
      "COMPLETED", "ERROR" }

(***************************************************************************)
(* interview_engine/state_machine.py: InterviewStateMachine.               *)
(***************************************************************************)
\* A faulty table, to show what the table decides: EVALUATE cannot reach ERROR.
VALID_TRANSITIONS_NoError(s) ==
    CASE s = "SETUP" -> {"ASK_QUESTION", "ERROR"}
      [] s = "ASK_QUESTION" -> {"PLAY_TTS", "ERROR"}
      [] s = "PLAY_TTS" -> {"LISTEN", "ERROR"}
      [] s = "LISTEN" -> {"SILENCE_DETECT", "ERROR"}
      [] s = "SILENCE_DETECT" -> {"TRANSCRIBE", "ERROR"}
      [] s = "TRANSCRIBE" -> {"EVALUATE", "ERROR"}
      [] s = "EVALUATE" -> {"FOLLOWUP", "NEXT_QUESTION", "FINAL_EVALUATION"}
      [] s = "FOLLOWUP" -> {"ASK_QUESTION", "ERROR"}
      [] s = "NEXT_QUESTION" -> {"ASK_QUESTION", "FINAL_EVALUATION", "ERROR"}
      [] s = "FINAL_EVALUATION" -> {"REPORT", "ERROR"}
      [] s = "REPORT" -> {"COMPLETED", "ERROR"}
      [] s = "ERROR" -> {"SETUP", "COMPLETED"}
      [] OTHER -> {}

VALID_TRANSITIONS(s) ==
    CASE s = "SETUP" -> {"ASK_QUESTION", "ERROR"}
      [] s = "ASK_QUESTION" -> {"PLAY_TTS", "ERROR"}
      [] s = "PLAY_TTS" -> {"LISTEN", "ERROR"}
      [] s = "LISTEN" -> {"SILENCE_DETECT", "ERROR"}
      [] s = "SILENCE_DETECT" -> {"TRANSCRIBE", "ERROR"}
      [] s = "TRANSCRIBE" -> {"EVALUATE", "ERROR"}
      [] s = "EVALUATE" -> {"FOLLOWUP", "NEXT_QUESTION", "FINAL_EVALUATION", "ERROR"}
      [] s = "FOLLOWUP" -> {"ASK_QUESTION", "ERROR"}
      [] s = "NEXT_QUESTION" -> {"ASK_QUESTION", "FINAL_EVALUATION", "ERROR"}
      [] s = "FINAL_EVALUATION" -> {"REPORT", "ERROR"}
      [] s = "REPORT" -> {"COMPLETED", "ERROR"}
      [] s = "ERROR" -> {"SETUP", "COMPLETED"}
      [] OTHER -> {}  \* COMPLETED: terminal

\* enter_state: the entry time is the count of enter_state calls so far.
enter_state(m, state) ==
    [m EXCEPT !.state_entry_times[state] = Len(m.transition_history) + 1]

\* __init__(initial_state)
NewStateMachine(initial_state) ==
    enter_state([current_state |-> initial_state,
                 transition_history |-> <<>>,
                 state_entry_times |-> [s \in InterviewState |-> 0]],
                initial_state)

can_transition_to(m, target_state) == target_state \in VALID_TRANSITIONS(m.current_state)

\* A faulty transition_to, to show what the log's "from" decides: the record is
\* written after current_state has moved.
transition_to_LoggingLate(m, target_state) ==
    IF ~can_transition_to(m, target_state)
    THEN [ok |-> FALSE, m |-> m]
    ELSE [ok |-> TRUE,
          m |-> enter_state(
                  [m EXCEPT !.current_state = target_state,
                            !.transition_history =
                                Append(@, [from |-> target_state, to |-> target_state])],
                  target_state)]

\* transition_to: [ok |-> TRUE, m |-> the machine after] or, when it raises
\* StateTransitionError, [ok |-> FALSE, m |-> the machine untouched].
transition_to(m, target_state) ==
    IF ~can_transition_to(m, target_state)
    THEN [ok |-> FALSE, m |-> m]
    ELSE [ok |-> TRUE,
          m |-> enter_state(
                  [m EXCEPT !.current_state = target_state,
                            !.transition_history =
                                Append(@, [from |-> m.current_state, to |-> target_state])],
                  target_state)]

\* reset(new_state)
reset(m, new_state) == NewStateMachine(new_state)

\* A faulty terminal test, to show what the pair of states decides: terminal is
\* read as "no transition leaves the state".
is_terminal_state_NoWayOut(m) == VALID_TRANSITIONS(m.current_state) = {}

is_terminal_state(m) == m.current_state \in {"COMPLETED", "ERROR"}

(***************************************************************************)
(* interview_engine/evaluator.py: EvaluationMetrics, AnswerEvaluation,     *)
(* EvaluationEngine.                                                       *)
(***************************************************************************)
ALL_METRICS ==
    << "technical_depth", "communication", "confidence",
       "logical_thinking", "problem_solving", "culture_fit" >>

Metrics == { ALL_METRICS[i] : i \in 1..Len(ALL_METRICS) }

Max(a, b) == IF a >= b THEN a ELSE b

Min(a, b) == IF a <= b THEN a ELSE b

\* The results the detailed evaluation collaborator returns in the model: a weak
\* answer that asks for a follow-up, and a malformed result that asks for none
\* (technical_depth above the range, culture_fit below it, confidence missing).
DetailedResults ==
    { [scores |-> [m \in Metrics |-> 3], needs_followup |-> TRUE],
      [scores |-> [m \in Metrics \ {"confidence"} |->
                      IF m = "technical_depth" THEN 15
                      ELSE IF m = "culture_fit" THEN -2 ELSE 6],
       needs_followup |-> FALSE] }

\* A faulty evaluate_answer, to show what the clamp decides: a missing metric is
\* 5.0 and the scores are kept as returned.
evaluate_answer_Unclamped(result) ==
    [scores |-> [m \in Metrics |->
                    IF m \in DOMAIN result.scores THEN result.scores[m] ELSE 5],
     needs_followup |-> result.needs_followup]

\* EvaluationEngine.evaluate_answer, after the collaborator returned `result`:
\* a missing metric is 5.0, every score is clamped into [0, 10].
evaluate_answer(result) ==
    [scores |-> [m \in Metrics |->
                    Max(0, Min(10, IF m \in DOMAIN result.scores
                                   THEN result.scores[m] ELSE 5))],
     needs_followup |-> result.needs_followup]

RECURSIVE SumScores(_, _)
SumScores(scores, ms) ==
    IF ms = <<>> THEN 0 ELSE scores[Head(ms)] + SumScores(scores, Tail(ms))

\* AnswerEvaluation.get_average_score
get_average_score(scores) == Rat(SumScores(scores, ALL_METRICS), Len(ALL_METRICS))

RECURSIVE SumMetric(_, _)
SumMetric(evaluations, metric) ==
    IF evaluations = <<>> THEN 0
    ELSE Head(evaluations).scores[metric] + SumMetric(Tail(evaluations), metric)

\* A faulty aggregate, to show what the division decides: the scores are summed.
aggregate_evaluations_Summing(evaluations) ==
    [m \in Metrics |-> <<SumMetric(evaluations, m), 1>>]

\* aggregate_evaluations with the default weights (1.0 per metric)
aggregate_evaluations(evaluations) ==
    IF evaluations = <<>>
    THEN [m \in Metrics |-> <<0, 1>>]
    ELSE [m \in Metrics |-> Rat(SumMetric(evaluations, m), Len(evaluations))]

\* calculate_overall_score's default metric weights
metric_weights ==
    [m \in Metrics |->
        CASE m = "technical_depth" -> Rat(12, 10)
          [] m = "communication" -> Rat(10, 10)
          [] m = "confidence" -> Rat(8, 10)
          [] m = "logical_thinking" -> Rat(11, 10)
          [] m = "problem_solving" -> Rat(12, 10)
          [] m = "culture_fit" -> Rat(9, 10)]

RECURSIVE WeightedSum(_, _)
WeightedSum(aggregated_scores, ms) ==
    IF ms = <<>> THEN <<0, 1>>
    ELSE RatAdd(RatMul(aggregated_scores[Head(ms)], metric_weights[Head(ms)]),
                WeightedSum(aggregated_scores, Tail(ms)))

RECURSIVE TotalWeight(_)
TotalWeight(ms) ==
    IF ms = <<>> THEN <<0, 1>> ELSE RatAdd(metric_weights[Head(ms)], TotalWeight(Tail(ms)))

\* A faulty overall score, to show what the final clamp decides: the weighted
\* mean is returned as it is.
calculate_overall_score_Unclamped(aggregated_scores) ==
    RatDiv(WeightedSum(aggregated_scores, ALL_METRICS), TotalWeight(ALL_METRICS))

calculate_overall_score(aggregated_scores) ==
    LET weighted_sum == WeightedSum(aggregated_scores, ALL_METRICS)
        total_weight == TotalWeight(ALL_METRICS)
        overall_score == IF total_weight[1] > 0 THEN RatDiv(weighted_sum, total_weight)
                         ELSE <<0, 1>>
    IN  RatMax(<<0, 1>>, RatMin(<<10, 1>>, overall_score))

\* A faulty verdict, to show what the thresholds' own values decide: the
\* comparisons are strict.
determine_verdict_Strict(overall_score) ==
    IF ~RatLeq(overall_score, <<15, 2>>) THEN "Hire"
    ELSE IF ~RatLeq(overall_score, <<6, 1>>) THEN "Borderline"
    ELSE "No-Hire"

determine_verdict(overall_score) ==
    IF RatLeq(<<15, 2>>, overall_score) THEN "Hire"
    ELSE IF RatLeq(<<6, 1>>, overall_score) THEN "Borderline"
    ELSE "No-Hire"

\* sorted(aggregated_scores.items(), key=value, reverse=True) is stable: among equal
\* values the enumeration order is kept, so [0] is the first metric with the largest
\* value and [-1] the last metric with the smallest value.
strongest_metric(aggregated_scores) ==
    LET i == CHOOSE i \in 1..Len(ALL_METRICS) :
                 /\ \A j \in 1..Len(ALL_METRICS) :
                        RatLeq(aggregated_scores[ALL_METRICS[j]], aggregated_scores[ALL_METRICS[i]])
                 /\ \A j \in 1..(i - 1) :
                        aggregated_scores[ALL_METRICS[j]] # aggregated_scores[ALL_METRICS[i]]
    IN  ALL_METRICS[i]

weakest_metric(aggregated_scores) ==
    LET i == CHOOSE i \in 1..Len(ALL_METRICS) :
                 /\ \A j \in 1..Len(ALL_METRICS) :
                        RatLeq(aggregated_scores[ALL_METRICS[i]], aggregated_scores[ALL_METRICS[j]])
                 /\ \A j \in (i + 1)..Len(ALL_METRICS) :
                        aggregated_scores[ALL_METRICS[j]] # aggregated_scores[ALL_METRICS[i]]
    IN  ALL_METRICS[i]

RECURSIVE Averages(_)
Averages(evaluations) ==
    IF evaluations = <<>> THEN <<>>
    ELSE <<get_average_score(Head(evaluations).scores)>> \o Averages(Tail(evaluations))

generate_evaluation_insights(evaluations, aggregated_scores) ==
    [strongest_metric |-> strongest_metric(aggregated_scores),
     weakest_metric |-> weakest_metric(aggregated_scores),
     total_answers |-> Len(evaluations),
     average_score |-> IF evaluations = <<>> THEN <<0, 1>>
                       ELSE RatDiv(RatSum(Averages(evaluations)), <<Len(evaluations), 1>>)]

(***************************************************************************)
(* The run of one handler.  A handler and the methods it calls are         *)
(* sequential code over the session and its orchestrator; each method is   *)
(* an operator from a run record w to the run record after it:             *)
(*   w.s, w.o     the InterviewSession and the InterviewOrchestrator       *)
(*   w.exc        TRUE once an exception is propagating                    *)
(*   w.ret        the question the last generate_* call returned, or None  *)
(*   w.result     what handle_user_answer returned, or None                *)
(*   w.outbox, w.sm_calls, w.pa_ret, w.completed, w.failed   as the        *)
(*                variables                                                *)
(*   w.conn       as the variable connection                               *)
(*   w.sock       the state of the id's WebSocket                          *)
(***************************************************************************)
RunAt(s, o, conn, sock) ==
    [s |-> s, o |-> o, exc |-> FALSE, ret |-> None, result |-> None,
     outbox |-> <<>>, sm_calls |-> <<>>, pa_ret |-> None, completed |-> FALSE,
     failed |-> FALSE, conn |-> conn, sock |-> sock]

\* The run of a handler for the id of Spec, SpecShort and SpecWS.
Run(s, o) == RunAt(s, o, connection, socket)

\* A collaborator call (question generator, evaluator) raises.
Raise(w) == [w EXCEPT !.exc = TRUE, !.failed = TRUE]

\* models/interview.py: InterviewSession(...) as handle_start_interview builds it
NewSession(question_count) ==
    [state |-> "SETUP",
     question_count |-> question_count,
     current_question_number |-> 0,
     questions |-> <<>>,
     answers |-> <<>>,
     scores |-> [answer_quality |-> None, overall_score |-> None, metrics |-> None],
     evaluation_history |-> <<>>,
     final_evaluation |-> None]

\* InterviewOrchestrator.__init__
NewOrchestrator ==
    [state_machine |-> NewStateMachine("SETUP"),
     conversation_history |-> <<>>,
     current_answer_buffer |-> <<>>,
     pending_followup |-> FALSE,
     difficulty_progression |-> <<>>,
     current_difficulty |-> "easy"]

\* v named by the parameter of F: the value of a local of the code.
With(v, F(_)) == F(v)

\* A faulty try block, to show what the except clause decides: a rejected
\* transition propagates as an exception.
RECURSIVE TryTransitions_Propagating(_, _)
TryTransitions_Propagating(w, targets) ==
    IF targets = <<>> THEN w
    ELSE With(transition_to(w.o.state_machine, Head(targets)), LAMBDA r :
         With([w EXCEPT !.o.state_machine = r.m,
                        !.sm_calls = Append(@, [target |-> Head(targets), ok |-> r.ok])],
              LAMBDA w1 : IF r.ok THEN TryTransitions_Propagating(w1, Tail(targets))
                          ELSE [w1 EXCEPT !.exc = TRUE]))

\* try: state_machine.transition_to(t1); transition_to(t2); ...
\* except StateTransitionError: (logged): the first rejected call ends the block.
RECURSIVE TryTransitions(_, _)
TryTransitions(w, targets) ==
    IF targets = <<>> THEN w
    ELSE With(transition_to(w.o.state_machine, Head(targets)), LAMBDA r :
         With([w EXCEPT !.o.state_machine = r.m,
                        !.sm_calls = Append(@, [target |-> Head(targets), ok |-> r.ok])],
              LAMBDA w1 : IF r.ok THEN TryTransitions(w1, Tail(targets)) ELSE w1))

\* A faulty generate_first_question, to show what the counter's start decides:
\* the first question is asked and the counter stays 0.
generate_first_question_Unnumbered(w, ok) ==
    With(TryTransitions(w, <<"ASK_QUESTION">>), LAMBDA w1 :
        IF ~ok THEN Raise(w1)
        ELSE [w1 EXCEPT !.s.questions = Append(@, "first"),
                        !.s.state = "ASK_QUESTION",
                        !.o.current_difficulty = "easy",
                        !.o.difficulty_progression = Append(@, "easy"),
                        !.ret = Some("first")])

\* generate_first_question; ok: the question collaborator succeeds
generate_first_question(w, ok) ==
    With(TryTransitions(w, <<"ASK_QUESTION">>), LAMBDA w1 :
        IF ~ok THEN Raise(w1)
        ELSE [w1 EXCEPT !.s.questions = Append(@, "first"),
                        !.s.current_question_number = 1,
                        !.s.state = "ASK_QUESTION",
                        !.o.current_difficulty = "easy",
                        !.o.difficulty_progression = Append(@, "easy"),
                        !.ret = Some("first")])

\* _update_difficulty: question_num <= total * 0.3, <= total * 0.7 (the float
\* products compare as the exact ones for every total in 1..20)
update_difficulty(w) ==
    LET question_num == w.s.current_question_number
        total == w.s.question_count
    IN  [w EXCEPT !.o.current_difficulty =
            IF 10 * question_num <= 3 * total THEN "easy"
            ELSE IF 10 * question_num <= 7 * total THEN "medium"
            ELSE "hard"]

\* generate_next_question; ok: the question collaborator succeeds
generate_next_question(w, ok) ==
    IF w.s.current_question_number >= w.s.question_count
    THEN [w EXCEPT !.ret = None]
    ELSE With(TryTransitions(update_difficulty(w), <<"ASK_QUESTION">>), LAMBDA w1 :
             IF ~ok THEN Raise(w1)
             ELSE [w1 EXCEPT !.s.questions = Append(@, "next"),
                             !.s.current_question_number = @ + 1,
                             !.s.state = "ASK_QUESTION",
                             !.o.pending_followup = FALSE,
                             !.o.difficulty_progression = Append(@, w1.o.current_difficulty),
                             !.ret = Some("next")])

\* add_transcript_chunk
add_transcript_chunk(w, transcript, is_final) ==
    [w EXCEPT !.o.current_answer_buffer =
        IF is_final THEN Strip(@ \o <<Space>> \o transcript) ELSE transcript]

\* The results the answer-evaluation collaborator (gemini_client.evaluate_answer)
\* returns in the model.
SimpleResults ==
    { [quality_score |-> 9, needs_followup |-> FALSE],
      [quality_score |-> 3, needs_followup |-> TRUE] }

\* The dictionary process_answer returns, with the question it evaluated (None when
\* it evaluated nothing) and the machine's state at the return.
AnswerResult(w, question, evaluation, needs_followup) ==
    Some([evaluation |-> evaluation,
          question |-> question,
          needs_followup |-> needs_followup,
          next_action |-> IF needs_followup THEN "followup" ELSE "next_question",
          state |-> w.o.state_machine.current_state])

\* A faulty decision, to show what pending_followup decides: it is not consulted.
FollowupDecisionIgnoringPending(evaluation, pending_followup) == evaluation.needs_followup

\* The follow-up decision of process_answer.
FollowupDecision(evaluation, pending_followup) ==
    evaluation.needs_followup /\ ~pending_followup

\* A faulty process_answer, to show what its first lines decide: the machine is moved
\* to EVALUATE before the buffer is looked at, and nothing is scored.
process_answer_TransitionFirst(w, evaluation) ==
    With(TryTransitions(w, <<"EVALUATE">>), LAMBDA w0 :
        [w0 EXCEPT !.pa_ret = AnswerResult(w0, None, None, FALSE)])

\* A faulty process_answer, to show what its last assignment decides: the
\* buffer keeps the answer that was recorded.
process_answer_KeepingBuffer(w, evaluation) ==
    IF w.o.current_answer_buffer = <<>> \/ w.s.questions = <<>>
    THEN [w EXCEPT !.pa_ret = AnswerResult(w, None, None, FALSE)]
    ELSE IF evaluation = None THEN Raise(w)
    ELSE LET current_question == w.s.questions[Len(w.s.questions)]
             answer == w.o.current_answer_buffer
             needs_followup == FollowupDecision(The(evaluation), w.o.pending_followup)
         IN  With(TryTransitions(
                      [w EXCEPT
                         !.s.scores.answer_quality =
                             Some((IF @ = None THEN <<>> ELSE The(@))
                                  \o <<The(evaluation).quality_score>>),
                         !.o.conversation_history = Append(@, <<current_question, answer>>),
                         !.s.answers = Append(@, answer)],
                      <<"EVALUATE">>),
                  LAMBDA w2 :
                      [w2 EXCEPT !.pa_ret = AnswerResult(w2, Some(current_question),
                                                         evaluation, needs_followup)])

\* process_answer; evaluation: what the collaborator returns, None when it fails
process_answer(w, evaluation) ==
    IF w.o.current_answer_buffer = <<>> \/ w.s.questions = <<>>
    THEN [w EXCEPT !.pa_ret = AnswerResult(w, None, None, FALSE)]
    ELSE IF evaluation = None THEN Raise(w)
    ELSE LET current_question == w.s.questions[Len(w.s.questions)]
             answer == w.o.current_answer_buffer
             needs_followup == FollowupDecision(The(evaluation), w.o.pending_followup)
         IN  With(TryTransitions(
                      [w EXCEPT
                         !.s.scores.answer_quality =
                             Some((IF @ = None THEN <<>> ELSE The(@))
                                  \o <<The(evaluation).quality_score>>),
                         !.o.conversation_history = Append(@, <<current_question, answer>>),
                         !.s.answers = Append(@, answer)],
                      <<"EVALUATE">>),
                  LAMBDA w2 :
                      [w2 EXCEPT !.o.current_answer_buffer = <<>>,
                                 !.pa_ret = AnswerResult(w2, Some(current_question),
                                                         evaluation, needs_followup)])

\* A faulty generate_followup_question, to show what its frame decides: the
\* follow-up advances the main question counter.
generate_followup_question_Counting(w, ok) ==
    IF w.s.questions = <<>> THEN [w EXCEPT !.ret = None]
    ELSE IF ~ok THEN Raise(w)
    ELSE [TryTransitions([w EXCEPT !.s.questions = Append(@, "followup"),
                                   !.s.current_question_number = @ + 1,
                                   !.o.pending_followup = TRUE],
                         <<"FOLLOWUP", "ASK_QUESTION">>)
             EXCEPT !.s.state = "ASK_QUESTION", !.ret = Some("followup")]

\* A faulty generate_followup_question, to show what pending_followup bounds:
\* the follow-up is not remembered.
generate_followup_question_Forgetting(w, ok) ==
    IF w.s.questions = <<>> THEN [w EXCEPT !.ret = None]
    ELSE IF ~ok THEN Raise(w)
    ELSE [TryTransitions([w EXCEPT !.s.questions = Append(@, "followup")],
                         <<"FOLLOWUP", "ASK_QUESTION">>)
             EXCEPT !.s.state = "ASK_QUESTION", !.ret = Some("followup")]

\* generate_followup_question; ok: the question collaborator succeeds
generate_followup_question(w, ok) ==
    IF w.s.questions = <<>> THEN [w EXCEPT !.ret = None]
    ELSE IF ~ok THEN Raise(w)
    ELSE [TryTransitions([w EXCEPT !.s.questions = Append(@, "followup"),
                                   !.o.pending_followup = TRUE],
                         <<"FOLLOWUP", "ASK_QUESTION">>)
             EXCEPT !.s.state = "ASK_QUESTION", !.ret = Some("followup")]

should_continue(w) == w.s.current_question_number < w.s.question_count

\* The completion transitions of complete_interview, in one try block.
CompletionTransitions(w) ==
    TryTransitions(w,
        (IF w.o.state_machine.current_state # "FINAL_EVALUATION"
         THEN <<"FINAL_EVALUATION">> ELSE <<>>) \o <<"REPORT", "COMPLETED">>)

\* The AnswerEvaluation objects complete_interview builds from the history.
Evaluations(evaluation_history) ==
    [i \in 1..Len(evaluation_history) |->
        [scores |-> evaluation_history[i].metrics,
         needs_followup |-> evaluation_history[i].needs_followup]]

RECURSIVE Sum(_)
Sum(xs) == IF xs = <<>> THEN 0 ELSE Head(xs) + Sum(Tail(xs))

\* The FinalEvaluation complete_interview stores.
FinalEvaluationOf(s) ==
    With(Evaluations(s.evaluation_history), LAMBDA evaluations :
    With(aggregate_evaluations(evaluations), LAMBDA aggregated_scores :
    With(calculate_overall_score(aggregated_scores), LAMBDA overall_score :
        [overall_score |-> overall_score,
         aggregated_metrics |-> aggregated_scores,
         verdict |-> determine_verdict(overall_score),
         insights |-> generate_evaluation_insights(evaluations, aggregated_scores),
         total_questions |-> s.question_count,
         total_answers |-> Len(s.answers)])))

\* complete_interview
complete_interview(w) ==
    With([CompletionTransitions(w) EXCEPT !.s.state = "FINAL_EVALUATION",
                                          !.completed = TRUE],
         LAMBDA w1 :
             IF w1.s.evaluation_history # <<>>
             THEN With(FinalEvaluationOf(w1.s), LAMBDA final :
                      [w1 EXCEPT !.s.scores.overall_score = Some(final.overall_score),
                                 !.s.scores.metrics = Some(final.aggregated_metrics),
                                 !.s.final_evaluation = Some(final)])
             ELSE With(w1.s.scores.answer_quality, LAMBDA scores_list :
                      IF scores_list # None /\ The(scores_list) # <<>>
                      THEN [w1 EXCEPT !.s.scores.overall_score =
                               Some(Rat(Sum(The(scores_list)), Len(The(scores_list))))]
                      ELSE w1))

\* The dictionary handle_user_answer returns.
UserAnswerResult(w, is_followup) ==
    Some([next_question |-> w.ret,
          is_followup |-> is_followup /\ w.ret # None,
          question_index |-> w.s.current_question_number,
          is_interview_complete |-> w.ret = None])

\* handle_user_answer, lines 449-457: the next question, if the interview continues
NextIfContinue(w, next_ok) ==
    IF should_continue(w) THEN generate_next_question(w, next_ok) ELSE w

\* handle_user_answer, lines 459-474: what it returns, completing the interview
\* when there is no next question
UserAnswerReturn(w) ==
    IF w.exc THEN w
    ELSE IF w.ret # None
    THEN [w EXCEPT !.result = UserAnswerResult(w, w.ret = Some("followup"))]
    ELSE With(complete_interview(w), LAMBDA w3 :
             [w3 EXCEPT !.result = UserAnswerResult(w3, FALSE)])

\* handle_user_answer; evaluation, followup_ok, next_ok: the collaborators' outcomes
handle_user_answer(w, user_answer, evaluation, followup_ok, next_ok) ==
    With(process_answer([w EXCEPT !.o.current_answer_buffer = user_answer,
                                  !.ret = None], evaluation),
         LAMBDA w1 :
             IF w1.exc THEN w1
             ELSE IF The(w1.pa_ret).needs_followup
             THEN With(generate_followup_question(w1, followup_ok), LAMBDA f :
                      UserAnswerReturn(IF f.exc \/ f.ret # None THEN f
                                       ELSE NextIfContinue(f, next_ok)))
             ELSE UserAnswerReturn(NextIfContinue(w1, next_ok)))

(***************************************************************************)
(* websocket/manager.py and websocket/handlers.py.                         *)
(***************************************************************************)
\* The manager's tables for the id: whether active_connections holds it, and
\* sessions[id] or None; m.exc: TRUE once a method has raised.
ManagerOf(conn, s) == [active_connections |-> conn, sessions |-> s, exc |-> FALSE]

\* A faulty disconnect, to show what its frame decides: the session is cleaned up
\* with the connection.
disconnect_Cleanup(m) == [m EXCEPT !.active_connections = FALSE, !.sessions = None]

\* manager.disconnect: the handle leaves active_connections if it is there
disconnect(m) ==
    IF m.active_connections THEN [m EXCEPT !.active_connections = FALSE] ELSE m

\* A faulty send_personal_message, to show what its except clause decides: the
\* handle of a socket that cannot be written to stays registered.
send_KeepingHandle(w, message) ==
    IF w.conn /\ w.sock = "open" THEN [w EXCEPT !.outbox = Append(@, message)] ELSE w

\* manager.send_personal_message: without a handle the message is dropped; a
\* write that fails disconnects the id
send(w, message) ==
    IF ~w.conn THEN w
    ELSE IF w.sock = "open" THEN [w EXCEPT !.outbox = Append(@, message)]
    ELSE [w EXCEPT !.conn = disconnect(ManagerOf(w.conn, Some(w.s))).active_connections]

\* A faulty send_error, to show what the registry's frame decides: the handle is
\* dropped with the error.
send_error_Closing(w, error_code, error_message) ==
    [send(w, [type |-> "ERROR", error_code |-> error_code, error_message |-> error_message])
        EXCEPT !.conn = FALSE]

\* send_error
send_error(w, error_code, error_message) ==
    send(w, [type |-> "ERROR", error_code |-> error_code, error_message |-> error_message])

\* manager.update_session_state followed by send_state_update
set_state(w, state) ==
    send([w EXCEPT !.s.state = state], [type |-> "STATE_UPDATE", state |-> state])

QuestionMessage(text, index, total) ==
    [type |-> "question", text |-> text, index |-> index, total |-> total]

\* An "except Exception" that only logs.
Caught_LogOnly(w, error_code) == [w EXCEPT !.exc = FALSE]

\* A handler's "except Exception": the exception is logged and reported.
Caught(w, error_code) ==
    IF w.exc THEN send_error([w EXCEPT !.exc = FALSE], error_code, "CollaboratorError") ELSE w

\* handle_start_interview with a valid message; the session is stored and the
\* orchestrator registered before the first question is asked for
\* A faulty start, to show what the index carries: the first question is
\* numbered from zero.
start_interview_FromZero(w, first_ok) ==
    With(generate_first_question(w, first_ok), LAMBDA w1 :
        IF w1.exc THEN Caught(w1, "START_INTERVIEW_ERROR")
        ELSE send(set_state(w1, "ASK_QUESTION"),
                  QuestionMessage(The(w1.ret), 0, w1.s.question_count)))

start_interview(w, first_ok) ==
    With(generate_first_question(w, first_ok), LAMBDA w1 :
        IF w1.exc THEN Caught(w1, "START_INTERVIEW_ERROR")
        ELSE send(set_state(w1, "ASK_QUESTION"),
                  QuestionMessage(The(w1.ret), 1, w1.s.question_count)))

\* handle_start_interview for the id of Spec, SpecShort and SpecWS
handle_start_interview(question_count, first_ok) ==
    start_interview(Run(NewSession(question_count), NewOrchestrator), first_ok)

\* handle_transcribe for a stored session with its orchestrator
handle_transcribe(w, transcript, is_final, evaluation, followup_ok, next_ok) ==
    With(add_transcript_chunk(w, transcript, is_final), LAMBDA w1 :
        IF ~is_final THEN w1
        ELSE With(handle_user_answer(set_state(w1, "EVALUATE"), transcript,
                                     evaluation, followup_ok, next_ok),
                  LAMBDA w2 :
                      IF w2.exc THEN Caught(w2, "TRANSCRIBE_ERROR")
                      ELSE IF The(w2.result).is_interview_complete
                      THEN send(w2, [type |-> "interview_complete"])
                      ELSE send(set_state(w2, "ASK_QUESTION"),
                                QuestionMessage(The(The(w2.result).next_question),
                                                The(w2.result).question_index,
                                                w2.s.question_count))))

\* handle_silence_detected, lines 209-265: the buffered answer is evaluated by the
\* evaluation engine; detailed: what its collaborator returns, None when it fails.
\* Gives the run and, in w.result, the handler's local `result`.
silence_evaluate(w, detailed) ==
    LET current_question == IF w.s.questions # <<>>
                            THEN w.s.questions[Len(w.s.questions)] ELSE ""
        current_answer == w.o.current_answer_buffer
    IN  IF current_answer # <<>>
        THEN IF detailed = None THEN Raise(w)
             ELSE With(evaluate_answer(The(detailed)), LAMBDA evaluation :
                 [send([w EXCEPT !.s.evaluation_history =
                           Append(@, [question_number |-> w.s.current_question_number,
                                      question |-> current_question,
                                      answer |-> current_answer,
                                      metrics |-> evaluation.scores,
                                      needs_followup |-> evaluation.needs_followup])],
                       [type |-> "EVALUATION_UPDATE",
                        scores |-> evaluation.scores,
                        overall |-> get_average_score(evaluation.scores),
                        current_question_number |-> w.s.current_question_number])
                    EXCEPT !.o.conversation_history =
                               Append(@, <<current_question, current_answer>>),
                           !.s.answers = Append(@, current_answer),
                           !.o.current_answer_buffer = <<>>,
                           !.result = Some([needs_followup |-> evaluation.needs_followup])])
        ELSE With(process_answer(w, None), LAMBDA p :
                 [p EXCEPT !.result =
                     Some([needs_followup |-> The(p.pa_ret).needs_followup])])

\* handle_silence_detected, lines 286-315: no follow-up is needed
silence_next(w, next_ok) ==
    IF ~should_continue(w)
    THEN send(complete_interview(w), [type |-> "interview_complete"])
    ELSE With(generate_next_question(w, next_ok), LAMBDA n :
             IF n.exc THEN n
             ELSE IF n.ret # None
             THEN send(n, QuestionMessage(The(n.ret), n.s.current_question_number,
                                          n.s.question_count))
             ELSE send(complete_interview(n), [type |-> "interview_complete"]))

\* handle_silence_detected, lines 267-285: a follow-up is needed
silence_followup(w, followup_ok) ==
    With(generate_followup_question(w, followup_ok), LAMBDA f :
        IF ~f.exc /\ f.ret # None
        THEN send(f, QuestionMessage(The(f.ret), f.s.current_question_number,
                                     f.s.question_count))
        ELSE f)

\* handle_silence_detected for a stored session with its orchestrator
handle_silence_detected(w, detailed, followup_ok, next_ok) ==
    With(silence_evaluate(set_state(w, "SILENCE_DETECT"), detailed), LAMBDA w1 :
        IF w1.exc THEN Caught(w1, "SILENCE_DETECTED_ERROR")
        ELSE Caught(IF The(w1.result).needs_followup
                    THEN silence_followup(set_state(w1, "EVALUATE"), followup_ok)
                    ELSE silence_next(set_state(w1, "EVALUATE"), next_ok),
                    "SILENCE_DETECTED_ERROR"))

\* handle_end_interview for a stored session
handle_end_interview(w) == set_state(w, "COMPLETED")

\* Reading manager.orchestrators when the manager has no such attribute raises
\* AttributeError inside the handler's try.
lookup_orchestrator(w, error_code) ==
    IF has_orchestrators THEN w ELSE send_error(w, error_code, "AttributeError")

\* handle_start_interview with a valid message, up to the point where the
\* orchestrator is stored: the session is already in manager.sessions
start_interview_unregistered(w) == lookup_orchestrator(w, "START_INTERVIEW_ERROR")

\* handle_transcribe for a stored session whose id has no orchestrator
transcribe_unregistered(w) == lookup_orchestrator(w, "TRANSCRIBE_ERROR")

\* handle_silence_detected for a stored session whose id has no orchestrator:
\* the phase is set before the orchestrator is looked up
silence_detected_unregistered(w) ==
    lookup_orchestrator(set_state(w, "SILENCE_DETECT"), "SILENCE_DETECTED_ERROR")

(***************************************************************************)
(* Spec: the inbound messages of one session id.                           *)
(***************************************************************************)
\* The manager.disconnect calls of a run: a write that failed.
Disconnected(w) == IF connection /\ ~w.conn THEN 1 ELSE 0

\* The session ids of SpecTwo
Ids == {"A", "B"}

\* ConnectionManager.__init__ (and the orchestrators table as the handlers use
\* it): no id has a handle, a session or an orchestrator; no id has a socket.
EmptyRegistry ==
    [active_connections |-> [id \in Ids |-> FALSE],
     sockets |-> [id \in Ids |-> "none"],
     sessions |-> [id \in Ids |-> None],
     orchestrators |-> [id \in Ids |-> None],
     session_id |-> None]

\* The handler's run becomes the state.
Commit(w) ==
    /\ session' = Some(w.s)
    /\ orchestrator' = Some(w.o)
    /\ outbox' = w.outbox
    /\ sm_calls' = w.sm_calls
    /\ pa_ret' = w.pa_ret
    /\ completed' = w.completed
    /\ failed' = w.failed
    /\ connection' = w.conn
    /\ disconnects' = disconnects + Disconnected(w)
    /\ UNCHANGED <<registry, scoring, api, endpoints>>

\* The run of a handler that has no orchestrator becomes the state.
CommitSession(w) ==
    /\ session' = Some(w.s)
    /\ outbox' = w.outbox
    /\ sm_calls' = w.sm_calls
    /\ pa_ret' = w.pa_ret
    /\ completed' = w.completed
    /\ failed' = w.failed
    /\ connection' = w.conn
    /\ disconnects' = disconnects + Disconnected(w)
    /\ UNCHANGED <<registry, scoring, api, endpoints>>
    /\ UNCHANGED orchestrator

\* The run of a handler that touches no session becomes the state.
Reply(w) ==
    /\ outbox' = w.outbox
    /\ sm_calls' = <<>>
    /\ pa_ret' = None
    /\ completed' = FALSE
    /\ failed' = FALSE
    /\ connection' = w.conn
    /\ disconnects' = disconnects + Disconnected(w)
    /\ UNCHANGED <<registry, scoring, api, endpoints>>
    /\ UNCHANGED <<session, orchestrator>>

\* A faulty refusal, to show what its frame decides: the session of the id is
\* forgotten with the message.
Refuse_Forgetting(error_code, error_message) ==
    /\ outbox' = send_error(Run(None, None), error_code, error_message).outbox
    /\ connection' = send_error(Run(None, None), error_code, error_message).conn
    /\ disconnects' = disconnects
    /\ UNCHANGED <<registry, scoring, api, endpoints>>
    /\ sm_calls' = <<>>
    /\ pa_ret' = None
    /\ completed' = FALSE
    /\ failed' = FALSE
    /\ session' = None
    /\ orchestrator' = None

\* The handler answers with an error and touches nothing.
Refuse(error_code, error_message) ==
    Reply(send_error(Run(None, None), error_code, error_message))

Stored == session # None /\ orchestrator # None

Current == Run(The(session), The(orchestrator))

\* The lists of a session stay within the model's bounds.
Room ==
    session # None =>
        /\ Len(The(session).answers) < MaxAnswers
        /\ Len(The(session).questions) < MaxQuestions

\* START_INTERVIEW{question_count}: StartInterviewMessage accepts 1..20
StartInterview ==
    /\ receiving
    /\ \E question_count \in 0..MaxCount, first_ok \in BOOLEAN :
          /\ well_formed' = (question_count >= 1 /\ question_count <= 20)
          /\ IF question_count >= 1 /\ question_count <= 20
             THEN IF has_orchestrators
                  THEN Commit(handle_start_interview(question_count, first_ok))
                  ELSE CommitSession(start_interview_unregistered(
                                         Run(NewSession(question_count), None)))
             ELSE Refuse("START_INTERVIEW_ERROR", "ValidationError")
    /\ inbound' = Some("START_INTERVIEW")
    /\ UNCHANGED <<machine, tt_ret, socket, receiving, has_orchestrators>>

\* The outcomes of the collaborators a handler calls; a collaborator it does not
\* call has no outcome to choose.
Outcomes(results, called) == IF called THEN {None} \cup {Some(r) : r \in results} ELSE {None}

OkOutcomes(called) == IF called THEN BOOLEAN ELSE {TRUE}

AsksFollowup(evaluation) == evaluation # None /\ The(evaluation).needs_followup

\* TRANSCRIBE{transcript, is_final}
Transcribe ==
    /\ receiving
    /\ Room
    /\ \E transcript \in Transcripts, is_final \in BOOLEAN :
       \E evaluation \in Outcomes(SimpleResults, Stored /\ is_final /\ transcript # <<>>) :
       \E followup_ok \in OkOutcomes(AsksFollowup(evaluation)),
          next_ok \in OkOutcomes(Stored /\ is_final) :
          IF session = None THEN Refuse("SESSION_NOT_FOUND", "Session not found")
          ELSE IF orchestrator = None
          THEN CommitSession(transcribe_unregistered(Run(The(session), None)))
          ELSE Commit(handle_transcribe(Current, transcript, is_final,
                                        evaluation, followup_ok, next_ok))
    /\ inbound' = Some("TRANSCRIBE")
    /\ well_formed' = TRUE
    /\ UNCHANGED <<machine, tt_ret, socket, receiving, has_orchestrators>>

\* SILENCE_DETECTED{duration_seconds}
SilenceDetected ==
    /\ receiving
    /\ Room
    /\ \E detailed \in Outcomes(DetailedResults,
                                Stored /\ The(orchestrator).current_answer_buffer # <<>>) :
       \E followup_ok \in OkOutcomes(AsksFollowup(detailed)),
          next_ok \in OkOutcomes(Stored) :
          IF session = None THEN Refuse("SESSION_NOT_FOUND", "Session not found")
          ELSE IF orchestrator = None
          THEN CommitSession(silence_detected_unregistered(Run(The(session), None)))
          ELSE Commit(handle_silence_detected(Current, detailed, followup_ok, next_ok))
    /\ inbound' = Some("SILENCE_DETECTED")
    /\ well_formed' = TRUE
    /\ UNCHANGED <<machine, tt_ret, socket, receiving, has_orchestrators>>

\* END_INTERVIEW{}
EndInterview ==
    /\ receiving
    /\ IF session = None THEN Refuse("SESSION_NOT_FOUND", "Session not found")
       ELSE IF orchestrator = None
       THEN CommitSession(handle_end_interview(Run(The(session), None)))
       ELSE Commit(handle_end_interview(Current))
    /\ inbound' = Some("END_INTERVIEW")
    /\ well_formed' = TRUE
    /\ UNCHANGED <<machine, tt_ret, socket, receiving, has_orchestrators>>

\* PING{}: handle_ping
Ping ==
    /\ receiving
    /\ Reply(send(Run(None, None), [type |-> "PONG"]))
    /\ inbound' = Some("PING")
    /\ well_formed' = TRUE
    /\ UNCHANGED <<machine, tt_ret, socket, receiving, has_orchestrators>>

\* manager.orchestrators as the handlers use it: a table, without an entry for the
\* session id until START_INTERVIEW registers one.
EmptyOrchestrators == None

\* The manager has the table the handlers use.
HasOrchestrators == TRUE

\* ConnectionManager.__init__
Init ==
    /\ machine = NewStateMachine("SETUP")
    /\ tt_ret = None
    /\ session = None
    /\ orchestrator = EmptyOrchestrators
    /\ outbox = <<>>
    /\ sm_calls = <<>>
    /\ pa_ret = None
    /\ completed = FALSE
    /\ inbound = None
    /\ failed = FALSE
    /\ connection = TRUE
    /\ socket = "open"
    /\ receiving = TRUE
    /\ has_orchestrators = HasOrchestrators
    /\ well_formed = TRUE
    /\ disconnects = 0
    /\ registry = EmptyRegistry
    /\ scoring = None
    /\ api = None
    /\ endpoints = None

Next ==
    \/ StartInterview
    \/ Transcribe
    \/ SilenceDetected
    \/ EndInterview
    \/ Ping

Spec == Init /\ [][Next]_vars

(***************************************************************************)
(* SpecSM: one InterviewStateMachine driven through its API.               *)
(***************************************************************************)
\* transition_to(target_state)
SMTransitionTo ==
    /\ Len(machine.transition_history) < MaxHistory
    /\ \E target_state \in InterviewState :
          LET r == transition_to(machine, target_state)
          IN  /\ machine' = r.m
              /\ tt_ret' = Some([op |-> "transition_to", from |-> machine.current_state,
                                 target |-> target_state, ok |-> r.ok])
    /\ UNCHANGED <<session, orchestrator, outbox, sm_calls, pa_ret, completed, inbound,
                   well_formed, failed, connection, socket, receiving, has_orchestrators,
                   disconnects, registry, scoring, api, endpoints>>

\* reset(new_state)
SMReset ==
    /\ \E new_state \in InterviewState :
          /\ machine' = reset(machine, new_state)
          /\ tt_ret' = Some([op |-> "reset", from |-> machine.current_state,
                             target |-> new_state, ok |-> TRUE])
    /\ UNCHANGED <<session, orchestrator, outbox, sm_calls, pa_ret, completed, inbound,
                   well_formed, failed, connection, socket, receiving, has_orchestrators,
                   disconnects, registry, scoring, api, endpoints>>

\* InterviewStateMachine(initial_state)
InitSM ==
    /\ \E initial_state \in InterviewState : machine = NewStateMachine(initial_state)
    /\ tt_ret = None
    /\ session = None
    /\ orchestrator = None
    /\ outbox = <<>>
    /\ sm_calls = <<>>
    /\ pa_ret = None
    /\ completed = FALSE
    /\ inbound = None
    /\ failed = FALSE
    /\ connection = FALSE
    /\ socket = "open"
    /\ receiving = FALSE
    /\ has_orchestrators = FALSE
    /\ well_formed = TRUE
    /\ disconnects = 0
    /\ registry = EmptyRegistry
    /\ scoring = None
    /\ api = None
    /\ endpoints = None

NextSM ==
    \/ SMTransitionTo
    \/ SMReset

SpecSM == InitSM /\ [][NextSM]_vars

(***************************************************************************)
(* SpecLog: one InterviewStateMachine driven by transition_to only.        *)
(***************************************************************************)
NextLog == SMTransitionTo

SpecLog == InitSM /\ [][NextLog]_vars

(***************************************************************************)
(* SpecWS: websocket_interview_endpoint for one session id, over the       *)
(* manager as ConnectionManager.__init__ builds it (no orchestrators       *)
(* attribute) and as the handlers use it (with the attribute).             *)
(***************************************************************************)
WsAnswers == 1
WsQuestions == 2

\* The lists of a session stay within the bounds of SpecWS.
RoomWS ==
    session # None =>
        /\ Len(The(session).answers) < WsAnswers
        /\ Len(The(session).questions) < WsQuestions

\* The manager's tables for the id
Manager == ManagerOf(connection, session)

\* manager.connect at the head of the endpoint: the socket is accepted, the handle
\* stored, and the receive loop entered
Connect ==
    /\ ~receiving
    /\ connection' = TRUE
    /\ socket' = "open"
    /\ receiving' = TRUE
    /\ disconnects' = 0
    /\ inbound' = Some("CONNECT")
    /\ well_formed' = TRUE
    /\ outbox' = <<>>
    /\ sm_calls' = <<>>
    /\ pa_ret' = None
    /\ completed' = FALSE
    /\ failed' = FALSE
    /\ UNCHANGED <<machine, tt_ret, session, orchestrator, has_orchestrators, registry,
                 scoring, api, endpoints>>

\* Text that json.loads rejects: the endpoint's "except json.JSONDecodeError"
InvalidJson ==
    /\ receiving
    /\ Reply(send_error(Run(None, None), "INVALID_JSON", "Invalid JSON format"))
    /\ inbound' = Some("INVALID_JSON")
    /\ well_formed' = FALSE
    /\ UNCHANGED <<machine, tt_ret, socket, receiving, has_orchestrators>>

\* JSON that is no object: message.get raises in handle_websocket_message
NotAnObject ==
    /\ receiving
    /\ Reply(send_error(Run(None, None), "HANDLER_ERROR", "AttributeError"))
    /\ inbound' = Some("NOT_AN_OBJECT")
    /\ well_formed' = FALSE
    /\ UNCHANGED <<machine, tt_ret, socket, receiving, has_orchestrators>>

\* A type that is none of the five: the router's else branch
UnknownType ==
    /\ receiving
    /\ Reply(send_error(Run(None, None), "UNKNOWN_MESSAGE_TYPE", "Unknown message type"))
    /\ inbound' = Some("UNKNOWN")
    /\ well_formed' = FALSE
    /\ UNCHANGED <<machine, tt_ret, socket, receiving, has_orchestrators>>

\* TRANSCRIBE or SILENCE_DETECTED that TranscribeMessage / SilenceDetectedMessage
\* rejects: the constructor raises in the first line of the handler's try
Malformed ==
    /\ receiving
    /\ \E type \in {"TRANSCRIBE", "SILENCE_DETECTED"} :
          /\ Refuse(type \o "_ERROR", "ValidationError")
          /\ inbound' = Some(type)
    /\ well_formed' = FALSE
    /\ UNCHANGED <<machine, tt_ret, socket, receiving, has_orchestrators>>

WsTranscribe == RoomWS /\ Transcribe

WsSilenceDetected == RoomWS /\ SilenceDetected

\* The peer goes away: from now on writes fail and receive_text raises.
SocketBreaks ==
    /\ receiving
    /\ socket = "open"
    /\ socket' = "broken"
    /\ UNCHANGED <<machine, tt_ret, session, orchestrator, outbox, sm_calls, pa_ret, completed,
                   inbound, well_formed, failed, connection, receiving, has_orchestrators,
                   disconnects, registry, scoring, api, endpoints>>

\* The manager's tables become the state after a disconnect call.
CommitManager(m) ==
    /\ connection' = m.active_connections
    /\ session' = m.sessions
    /\ disconnects' = disconnects + 1
    /\ UNCHANGED <<registry, scoring, api, endpoints>>
    /\ well_formed' = TRUE
    /\ outbox' = <<>>
    /\ sm_calls' = <<>>
    /\ pa_ret' = None
    /\ completed' = FALSE
    /\ failed' = FALSE

\* receive_text raises WebSocketDisconnect: the endpoint disconnects the id and
\* returns
ReceiveDisconnect ==
    /\ receiving
    /\ socket = "broken"
    /\ CommitManager(disconnect(Manager))
    /\ receiving' = FALSE
    /\ inbound' = Some("DISCONNECT")
    /\ UNCHANGED <<machine, tt_ret, orchestrator, socket, has_orchestrators>>

\* shutdown_event: every id of active_connections is disconnected
Shutdown ==
    /\ connection
    /\ CommitManager(disconnect(Manager))
    /\ inbound' = Some("SHUTDOWN")
    /\ UNCHANGED <<machine, tt_ret, orchestrator, socket, receiving, has_orchestrators>>

\* ConnectionManager.__init__, with or without the table of orchestrators
InitWS ==
    /\ machine = NewStateMachine("SETUP")
    /\ tt_ret = None
    /\ session = None
    /\ orchestrator = None
    /\ outbox = <<>>
    /\ sm_calls = <<>>
    /\ pa_ret = None
    /\ completed = FALSE
    /\ inbound = None
    /\ well_formed = TRUE
    /\ failed = FALSE
    /\ connection = FALSE
    /\ socket = "open"
    /\ receiving = FALSE
    /\ has_orchestrators \in BOOLEAN
    /\ disconnects = 0
    /\ registry = EmptyRegistry
    /\ scoring = None
    /\ api = None
    /\ endpoints = None

NextWS ==
    \/ Connect
    \/ StartInterview
    \/ WsTranscribe
    \/ WsSilenceDetected
    \/ EndInterview
    \/ Ping
    \/ InvalidJson
    \/ NotAnObject
    \/ UnknownType
    \/ Malformed
    \/ SocketBreaks
    \/ ReceiveDisconnect
    \/ Shutdown

SpecWS == InitWS /\ [][NextWS]_vars

(***************************************************************************)
(* SpecShort: the inbound messages of one session id, as in Spec, for the  *)
(* sessions within the bounds of SpecWS.                                   *)
(***************************************************************************)
NextShort ==
    \/ StartInterview
    \/ WsTranscribe
    \/ WsSilenceDetected
    \/ EndInterview
    \/ Ping

SpecShort == Init /\ [][NextShort]_vars

(***************************************************************************)
(* SpecTwo: the manager's tables over two session ids, each with its own   *)
(* WebSocket; the handlers of Spec run for either id, on the entries the   *)
(* tables hold under that id.                                              *)
(***************************************************************************)
TwoAnswers == 1
TwoQuestions == 1

\* The variables of the one-id specifications
single == <<machine, tt_ret, session, orchestrator, outbox, sm_calls, pa_ret, completed,
            inbound, well_formed, failed, connection, socket, receiving, has_orchestrators,
            disconnects, scoring, api, endpoints>>

\* The tables while the endpoint of session_id runs: session_id is the path
\* parameter of the endpoint that took the step.
Served(session_id) == [registry EXCEPT !.session_id = Some(session_id)]

\* The run of a handler for session_id over manager.sessions[session_id] and
\* manager.orchestrators[session_id]
RunFor(session_id, s, o) ==
    RunAt(s, o, registry.active_connections[session_id], registry.sockets[session_id])

StoredAt(session_id) ==
    registry.sessions[session_id] # None /\ registry.orchestrators[session_id] # None

CurrentAt(session_id) ==
    RunFor(session_id, The(registry.sessions[session_id]),
           The(registry.orchestrators[session_id]))

\* The lists of the id's session stay within the bounds of SpecTwo.
RoomAt(session_id) ==
    registry.sessions[session_id] # None =>
        /\ Len(The(registry.sessions[session_id]).answers) < TwoAnswers
        /\ Len(The(registry.sessions[session_id]).questions) <= TwoQuestions

\* A message for the id can arrive: its receive loop runs.
Receiving(session_id) == registry.sockets[session_id] \in {"open", "broken"}

\* A faulty write-back, to show what the keys of the tables decide: the session
\* is stored under every id.
Store_Everywhere(session_id, w) ==
    registry' = [Served(session_id) EXCEPT !.sessions = [id \in Ids |-> Some(w.s)],
                                 !.orchestrators[session_id] = Some(w.o),
                                 !.active_connections[session_id] = w.conn]

\* The run of a handler for session_id becomes the tables' entries under it.
Store(session_id, w) ==
    registry' = [Served(session_id) EXCEPT !.sessions[session_id] = Some(w.s),
                                 !.orchestrators[session_id] = Some(w.o),
                                 !.active_connections[session_id] = w.conn]

\* The same for a handler that has no orchestrator.
StoreSession(session_id, w) ==
    registry' = [Served(session_id) EXCEPT !.sessions[session_id] = Some(w.s),
                                 !.active_connections[session_id] = w.conn]

\* The same for a handler that only answers.
StoreReply(session_id, w) ==
    registry' = [Served(session_id) EXCEPT !.active_connections[session_id] = w.conn]

\* The inputs of a message for session_id: every value of S for id A, the one
\* value v (when S has it) for id B.  The handlers are the same code for every
\* id; B's interview takes one course so that the product of the two stays small.
For(session_id, S, v) == IF session_id = "A" THEN S ELSE S \cap {v}

\* The outcomes of an evaluation collaborator for session_id: for id B it
\* succeeds and asks for no follow-up.
OutcomesFor(session_id, results, called) ==
    IF session_id = "A" \/ ~called THEN Outcomes(results, called)
    ELSE {Some(CHOOSE r \in results : ~r.needs_followup)}

\* websocket_interview_endpoint(session_id): manager.connect
TwoConnect(session_id) ==
    /\ registry.sockets[session_id] = "none"
    /\ registry' = [Served(session_id) EXCEPT !.active_connections[session_id] = TRUE,
                                    !.sockets[session_id] = "open"]
    /\ UNCHANGED single

\* START_INTERVIEW{question_count} for session_id
TwoStartInterview(session_id) ==
    /\ Receiving(session_id)
    /\ \E question_count \in For(session_id, 1..TwoQuestions, 1),
          first_ok \in For(session_id, BOOLEAN, TRUE) :
          IF has_orchestrators
          THEN Store(session_id,
                     start_interview(RunFor(session_id, NewSession(question_count),
                                            NewOrchestrator), first_ok))
          ELSE StoreSession(session_id,
                            start_interview_unregistered(
                                RunFor(session_id, NewSession(question_count), None)))
    /\ UNCHANGED single

\* TRANSCRIBE{transcript, is_final} for session_id
TwoTranscribe(session_id) ==
    /\ Receiving(session_id)
    /\ RoomAt(session_id)
    /\ \E transcript \in For(session_id, Transcripts, <<"a">>),
          is_final \in For(session_id, BOOLEAN, TRUE) :
       \E evaluation \in OutcomesFor(session_id, SimpleResults,
                                     StoredAt(session_id) /\ is_final /\ transcript # <<>>) :
       \E followup_ok \in For(session_id, OkOutcomes(AsksFollowup(evaluation)), TRUE),
          next_ok \in For(session_id, OkOutcomes(StoredAt(session_id) /\ is_final), TRUE) :
          IF registry.sessions[session_id] = None
          THEN StoreReply(session_id,
                          send_error(RunFor(session_id, None, None),
                                     "SESSION_NOT_FOUND", "Session not found"))
          ELSE IF registry.orchestrators[session_id] = None
          THEN StoreSession(session_id,
                            transcribe_unregistered(
                                RunFor(session_id, The(registry.sessions[session_id]), None)))
          ELSE Store(session_id,
                     handle_transcribe(CurrentAt(session_id), transcript, is_final,
                                       evaluation, followup_ok, next_ok))
    /\ UNCHANGED single

\* SILENCE_DETECTED{duration_seconds} for session_id
TwoSilenceDetected(session_id) ==
    /\ Receiving(session_id)
    /\ RoomAt(session_id)
    /\ \E detailed \in OutcomesFor(session_id, DetailedResults,
                                   StoredAt(session_id)
                                   /\ The(registry.orchestrators[session_id])
                                          .current_answer_buffer # <<>>) :
       \E followup_ok \in For(session_id, OkOutcomes(AsksFollowup(detailed)), TRUE),
          next_ok \in For(session_id, OkOutcomes(StoredAt(session_id)), TRUE) :
          IF registry.sessions[session_id] = None
          THEN StoreReply(session_id,
                          send_error(RunFor(session_id, None, None),
                                     "SESSION_NOT_FOUND", "Session not found"))
          ELSE IF registry.orchestrators[session_id] = None
          THEN StoreSession(session_id,
                            silence_detected_unregistered(
                                RunFor(session_id, The(registry.sessions[session_id]), None)))
          ELSE Store(session_id,
                     handle_silence_detected(CurrentAt(session_id), detailed,
                                             followup_ok, next_ok))
    /\ UNCHANGED single

\* END_INTERVIEW{} for session_id
TwoEndInterview(session_id) ==
    /\ Receiving(session_id)
    /\ IF registry.sessions[session_id] = None
       THEN StoreReply(session_id,
                       send_error(RunFor(session_id, None, None),
                                  "SESSION_NOT_FOUND", "Session not found"))
       ELSE StoreSession(session_id,
                         handle_end_interview(
                             RunFor(session_id, The(registry.sessions[session_id]), None)))
    /\ UNCHANGED single

\* The peer of session_id goes away; B's peer stays.
TwoSocketBreaks(session_id) ==
    /\ session_id \in For(session_id, Ids, "A")
    /\ registry.sockets[session_id] = "open"
    /\ registry' = [Served(session_id) EXCEPT !.sockets[session_id] = "broken"]
    /\ UNCHANGED single

\* session_id's receive_text raises WebSocketDisconnect: manager.disconnect and
\* the end of its endpoint
TwoReceiveDisconnect(session_id) ==
    /\ registry.sockets[session_id] = "broken"
    /\ LET m == disconnect(ManagerOf(registry.active_connections[session_id],
                                      registry.sessions[session_id]))
       IN  registry' = [Served(session_id) EXCEPT !.active_connections[session_id] =
                                            m.active_connections,
                                        !.sessions[session_id] = m.sessions,
                                        !.sockets[session_id] = "closed"]
    /\ UNCHANGED single

\* ConnectionManager.__init__, with or without the table of orchestrators
InitTwo ==
    /\ machine = NewStateMachine("SETUP")
    /\ tt_ret = None
    /\ session = None
    /\ orchestrator = None
    /\ outbox = <<>>
    /\ sm_calls = <<>>
    /\ pa_ret = None
    /\ completed = FALSE
    /\ inbound = None
    /\ well_formed = TRUE
    /\ failed = FALSE
    /\ connection = FALSE
    /\ socket = "open"
    /\ receiving = FALSE
    /\ has_orchestrators \in BOOLEAN
    /\ disconnects = 0
    /\ registry = EmptyRegistry
    /\ scoring = None
    /\ api = None
    /\ endpoints = None

NextTwo ==
    \E session_id \in Ids :
        \/ TwoConnect(session_id)
        \/ TwoStartInterview(session_id)
        \/ TwoTranscribe(session_id)
        \/ TwoSilenceDetected(session_id)
        \/ TwoEndInterview(session_id)
        \/ TwoSocketBreaks(session_id)
        \/ TwoReceiveDisconnect(session_id)

SpecTwo == InitTwo /\ [][NextTwo]_vars

(***************************************************************************)
(* SpecEval: the aggregation functions of the evaluation engine, called    *)
(* one after another by a client that holds their arguments and results.   *)
(* The engine has no attribute of its own; the one thing a call reads      *)
(* besides its arguments is the iteration order of Python's set of         *)
(* strings, fixed per process by the string hash seed.                     *)
(***************************************************************************)
MaxEvaluations == 2   \* SpecEval: evaluations in one list

\* The weakness and strength tags of the model.
Tags == {"vague", "shallow"}

\* The orders in which a process may iterate a set of the tags.
HashOrders == {<<"vague", "shallow">>, <<"shallow", "vague">>}

\* The AnswerEvaluation objects of the model: the clamped scores of the
\* collaborator's results, and a perfect answer.
AnswerEvaluations ==
    { [scores |-> evaluate_answer(result).scores, needs_followup |-> result.needs_followup,
       weaknesses |-> <<"vague", "shallow">>, strengths |-> <<>>] : result \in DetailedResults }
    \cup { [scores |-> [m \in Metrics |-> 10], needs_followup |-> FALSE,
            weaknesses |-> <<>>, strengths |-> <<"vague">>] }

EvaluationLists == UNION { [1..n -> AnswerEvaluations] : n \in 0..MaxEvaluations }

\* Values of one aggregated metric a caller may pass, as rationals.
Levels == { <<-3, 1>>, <<9, 2>>, <<12, 1>> }

\* Overall scores a caller may pass: the thresholds and their neighbours.
OverallScores ==
    { <<0, 1>>, Rat(5999, 1000), <<6, 1>>, Rat(7499, 1000), Rat(15, 2), <<10, 1>> }

RECURSIVE Extend(_, _)
\* all_tags.extend(...) over the evaluations, field by field
Extend(evaluations, field) ==
    IF evaluations = <<>> THEN <<>>
    ELSE Head(evaluations)[field] \o Extend(Tail(evaluations), field)

\* list(set(all_tags))[:5]: the distinct tags in the process's iteration order
Unique5(all_tags, hash_order) ==
    LET unique == SelectSeq(hash_order,
                            LAMBDA tag : \E i \in 1..Len(all_tags) : all_tags[i] = tag)
    IN  SubSeq(unique, 1, Min(5, Len(unique)))

\* generate_evaluation_insights with its tag lists
insights(evaluations, aggregated_scores, hash_order) ==
    [strongest_metric |-> strongest_metric(aggregated_scores),
     weakest_metric |-> weakest_metric(aggregated_scores),
     common_weaknesses |-> Unique5(Extend(evaluations, "weaknesses"), hash_order),
     common_strengths |-> Unique5(Extend(evaluations, "strengths"), hash_order),
     total_answers |-> generate_evaluation_insights(evaluations, aggregated_scores).total_answers,
     average_score |-> generate_evaluation_insights(evaluations, aggregated_scores).average_score]

\* A call on the engine: its name, its arguments, what it returned.
Call(op, args, ret) ==
    scoring' = [scoring EXCEPT !.op = op, !.args = args, !.ret = ret]

\* evaluation_engine.aggregate_evaluations(evaluations)
AggregateEvaluations ==
    /\ \E evaluations \in EvaluationLists :
          Call("aggregate_evaluations", <<evaluations>>, aggregate_evaluations(evaluations))
    /\ UNCHANGED <<machine, tt_ret, session, orchestrator, outbox, sm_calls, pa_ret, completed,
                   inbound, well_formed, failed, connection, socket, receiving,
                   has_orchestrators, disconnects, registry, api, endpoints>>

\* The mappings the next calculate_overall_score call is given: what
\* aggregate_evaluations just returned, a mapping of one level, or the last
\* mapping of levels with one metric changed.
AggregatedInputs ==
    IF scoring.op = "aggregate_evaluations" THEN {scoring.ret}
    ELSE IF scoring.op = "calculate_overall_score"
            /\ \A m \in Metrics : scoring.args[1][m] \in Levels
    THEN { [scoring.args[1] EXCEPT ![m] = level] : m \in Metrics, level \in Levels }
    ELSE { [m \in Metrics |-> <<9, 2>>] }

\* evaluation_engine.calculate_overall_score(aggregated_scores)
CalculateOverallScore ==
    /\ \E aggregated_scores \in AggregatedInputs :
          Call("calculate_overall_score", <<aggregated_scores>>,
               calculate_overall_score(aggregated_scores))
    /\ UNCHANGED <<machine, tt_ret, session, orchestrator, outbox, sm_calls, pa_ret, completed,
                   inbound, well_formed, failed, connection, socket, receiving,
                   has_orchestrators, disconnects, registry, api, endpoints>>

\* evaluation_engine.determine_verdict(overall_score)
DetermineVerdict ==
    /\ \E overall_score \in OverallScores \cup
                             (IF scoring.op = "calculate_overall_score"
                              THEN {scoring.ret} ELSE {}) :
          Call("determine_verdict", <<overall_score>>, determine_verdict(overall_score))
    /\ UNCHANGED <<machine, tt_ret, session, orchestrator, outbox, sm_calls, pa_ret, completed,
                   inbound, well_formed, failed, connection, socket, receiving,
                   has_orchestrators, disconnects, registry, api, endpoints>>

\* evaluation_engine.generate_evaluation_insights(evaluations, aggregated_scores),
\* called as complete_interview calls it
GenerateEvaluationInsights ==
    /\ \E evaluations \in EvaluationLists :
          Call("generate_evaluation_insights",
               <<evaluations, aggregate_evaluations(evaluations)>>,
               insights(evaluations, aggregate_evaluations(evaluations), scoring.hash_order))
    /\ UNCHANGED <<machine, tt_ret, session, orchestrator, outbox, sm_calls, pa_ret, completed,
                   inbound, well_formed, failed, connection, socket, receiving,
                   has_orchestrators, disconnects, registry, api, endpoints>>

\* The process starts: evaluation_engine = EvaluationEngine(), under one hash seed
InitEval ==
    /\ machine = NewStateMachine("SETUP")
    /\ tt_ret = None
    /\ session = None
    /\ orchestrator = None
    /\ outbox = <<>>
    /\ sm_calls = <<>>
    /\ pa_ret = None
    /\ completed = FALSE
    /\ inbound = None
    /\ well_formed = TRUE
    /\ failed = FALSE
    /\ connection = FALSE
    /\ socket = "open"
    /\ receiving = FALSE
    /\ has_orchestrators = HasOrchestrators
    /\ disconnects = 0
    /\ registry = EmptyRegistry
    /\ \E hash_order \in HashOrders :
          scoring = [op |-> "EvaluationEngine", args |-> <<>>, ret |-> None,
                     hash_order |-> hash_order]
    /\ api = None
    /\ endpoints = None

NextEval ==
    \/ AggregateEvaluations
    \/ CalculateOverallScore
    \/ DetermineVerdict
    \/ GenerateEvaluationInsights

SpecEval == InitEval /\ [][NextEval]_vars

(***************************************************************************)
(* SpecAPI: one InterviewOrchestrator driven through its own methods,      *)
(* generate_first_question and then handle_user_answer with every answer   *)
(* and every evaluation, the collaborators succeeding.                     *)
(***************************************************************************)
MaxTotal == 3   \* SpecAPI: largest question_count of the session

\* The run of an orchestrator method becomes the state.
Returns(w) ==
    /\ session' = Some(w.s)
    /\ orchestrator' = Some(w.o)
    /\ sm_calls' = w.sm_calls
    /\ pa_ret' = w.pa_ret
    /\ completed' = w.completed
    /\ failed' = w.failed
    /\ UNCHANGED <<machine, tt_ret, outbox, inbound, well_formed, connection, socket,
                   receiving, has_orchestrators, disconnects, registry, scoring, endpoints>>

\* await orchestrator.generate_first_question()
GenerateFirstQuestion ==
    /\ The(session).questions = <<>>
    /\ Returns(generate_first_question(Current, TRUE))
    /\ api' = [calls |-> 0, result |-> None]

\* await orchestrator.handle_user_answer(session_id, user_answer); the calls
\* stop with the one that completes the interview, and past 2 * question_count
\* of them at the latest
HandleUserAnswer ==
    /\ The(session).questions # <<>>
    /\ ~completed
    /\ api.calls <= 2 * The(session).question_count
    /\ \E user_answer \in Transcripts, evaluation \in SimpleResults :
          LET w == handle_user_answer(Current, user_answer, Some(evaluation), TRUE, TRUE)
          IN  /\ Returns(w)
              /\ api' = [calls |-> api.calls + 1, result |-> w.result]

\* InterviewOrchestrator(session) over a session of question_count questions
InitAPI ==
    /\ machine = NewStateMachine("SETUP")
    /\ tt_ret = None
    /\ \E question_count \in 1..MaxTotal : session = Some(NewSession(question_count))
    /\ orchestrator = Some(NewOrchestrator)
    /\ outbox = <<>>
    /\ sm_calls = <<>>
    /\ pa_ret = None
    /\ completed = FALSE
    /\ inbound = None
    /\ well_formed = TRUE
    /\ failed = FALSE
    /\ connection = FALSE
    /\ socket = "open"
    /\ receiving = FALSE
    /\ has_orchestrators = HasOrchestrators
    /\ disconnects = 0
    /\ registry = EmptyRegistry
    /\ scoring = None
    /\ api = [calls |-> 0, result |-> None]
    /\ endpoints = None

NextAPI ==
    \/ GenerateFirstQuestion
    \/ HandleUserAnswer

SpecAPI == InitAPI /\ [][NextAPI]_vars

(***************************************************************************)
(* SpecDup: the WebSockets opened under one session id.  Each runs its own *)
(* websocket_interview_endpoint coroutine; manager.active_connections holds*)
(* one handle for the id.                                                  *)
(***************************************************************************)
MaxDelivered == 2   \* SpecDup: messages written to one WebSocket

\* The WebSockets opened under the id
Connections == {"c1", "c2"}

\* ConnectionManager.__init__, and no endpoint coroutine started: handle is
\* active_connections[id]; at[c] the position of c's coroutine; peer[c] the
\* WebSocket c; delivered[c] the messages written to c; op the last step.
NoEndpoints ==
    [handle |-> None,
     at |-> [c \in Connections |-> "idle"],
     peer |-> [c \in Connections |-> "none"],
     delivered |-> [c \in Connections |-> 0],
     op |-> <<"ConnectionManager">>]

\* manager.send_personal_message(message, session_id) over the handle of the id
send_personal_message(e) ==
    IF e.handle = None THEN e
    ELSE IF e.peer[The(e.handle)] = "open"
    THEN [e EXCEPT !.delivered[The(e.handle)] = @ + 1]
    ELSE [e EXCEPT !.handle = None]

Frame_endpoints ==
    UNCHANGED <<machine, tt_ret, session, orchestrator, outbox, sm_calls, pa_ret, completed,
                inbound, well_formed, failed, connection, socket, receiving,
                has_orchestrators, disconnects, registry, scoring, api>>

\* connected = await manager.connect(websocket, session_id); accept_ok: the
\* accept succeeds
DupConnect ==
    /\ \E c \in Connections, accept_ok \in BOOLEAN :
          /\ endpoints.at[c] = "idle"
          /\ endpoints' =
                IF accept_ok
                THEN [endpoints EXCEPT !.handle = Some(c), !.at[c] = "receiving",
                                       !.peer[c] = "open", !.op = <<"connect", c>>]
                ELSE [endpoints EXCEPT !.at[c] = "returned", !.peer[c] = "closed",
                                       !.op = <<"connect", c>>]
    /\ Frame_endpoints

\* A message received on c is handled and answered with one message for the id
DupMessage ==
    /\ \E c \in Connections :
          /\ endpoints.at[c] = "receiving"
          /\ endpoints.peer[c] = "open"
          /\ \A d \in Connections : endpoints.delivered[d] < MaxDelivered
          /\ endpoints' = [send_personal_message(endpoints) EXCEPT !.op = <<"message", c>>]
    /\ Frame_endpoints

\* The client closes the WebSocket c
DupClose ==
    /\ \E c \in Connections :
          /\ endpoints.peer[c] = "open"
          /\ endpoints' = [endpoints EXCEPT !.peer[c] = "closed", !.op = <<"close", c>>]
    /\ Frame_endpoints

\* except WebSocketDisconnect: manager.disconnect(session_id), in the endpoint
\* coroutine of the WebSocket that closed
DupDisconnect ==
    /\ \E c \in Connections :
          /\ endpoints.at[c] = "receiving"
          /\ endpoints.peer[c] = "closed"
          /\ endpoints' = [endpoints EXCEPT !.handle = None, !.at[c] = "returned",
                                            !.op = <<"disconnect", c>>]
    /\ Frame_endpoints

InitDup ==
    /\ machine = NewStateMachine("SETUP")
    /\ tt_ret = None
    /\ session = None
    /\ orchestrator = EmptyOrchestrators
    /\ outbox = <<>>
    /\ sm_calls = <<>>
    /\ pa_ret = None
    /\ completed = FALSE
    /\ inbound = None
    /\ well_formed = TRUE
    /\ failed = FALSE
    /\ connection = FALSE
    /\ socket = "none"
    /\ receiving = FALSE
    /\ has_orchestrators = HasOrchestrators
    /\ disconnects = 0
    /\ registry = EmptyRegistry
    /\ scoring = None
    /\ api = None
    /\ endpoints = NoEndpoints

NextDup ==
    \/ DupConnect
    \/ DupMessage
    \/ DupClose
    \/ DupDisconnect

SpecDup == InitDup /\ [][NextDup]_vars

(***************************************************************************)
(* Properties.                                                             *)
(***************************************************************************)
Last(q) == q[Len(q)]

\* The transition table as the specification states it.
AllowedTargets(s) ==
    CASE s = "SETUP" -> {"ASK_QUESTION", "ERROR"}
      [] s = "ASK_QUESTION" -> {"PLAY_TTS", "ERROR"}
      [] s = "PLAY_TTS" -> {"LISTEN", "ERROR"}
      [] s = "LISTEN" -> {"SILENCE_DETECT", "ERROR"}
      [] s = "SILENCE_DETECT" -> {"TRANSCRIBE", "ERROR"}
      [] s = "TRANSCRIBE" -> {"EVALUATE", "ERROR"}
      [] s = "EVALUATE" -> {"FOLLOWUP", "NEXT_QUESTION", "FINAL_EVALUATION", "ERROR"}
      [] s = "FOLLOWUP" -> {"ASK_QUESTION", "ERROR"}
      [] s = "NEXT_QUESTION" -> {"ASK_QUESTION", "FINAL_EVALUATION", "ERROR"}
      [] s = "FINAL_EVALUATION" -> {"REPORT", "ERROR"}
      [] s = "REPORT" -> {"COMPLETED", "ERROR"}
      [] s = "ERROR" -> {"SETUP", "COMPLETED"}
      [] s = "COMPLETED" -> {}

\* C1: transition_to(t) called in state s succeeds iff t is in the allowed set of s
\* in the transition table; a call that fails leaves current_state equal to s (and
\* a call that succeeds makes it t).
C1_TransitionIffAllowed ==
    (tt_ret # None /\ The(tt_ret).op = "transition_to") =>
        LET r == The(tt_ret)
        IN  /\ r.ok <=> r.target \in AllowedTargets(r.from)
            /\ ~r.ok => machine.current_state = r.from
            /\ r.ok => machine.current_state = r.target

\* C1 witness: after an accepted transition, a call outside the table was rejected.
C1_Witness ==
    /\ tt_ret # None
    /\ The(tt_ret).op = "transition_to"
    /\ ~The(tt_ret).ok
    /\ The(tt_ret).from = "EVALUATE"
    /\ The(tt_ret).target = "ASK_QUESTION"
    /\ machine.transition_history # <<>>

\* C2: the server never issues two follow-up questions in a row: no two adjacent
\* questions of a session are both follow-ups.
C2_NoConsecutiveFollowups ==
    session # None =>
        \A i \in 1..(Len(The(session).questions) - 1) :
            ~(The(session).questions[i] = "followup"
              /\ The(session).questions[i + 1] = "followup")

\* C3: when process_answer has scored an answer, the next action it returns is
\* "followup" iff the evaluator reported needs_followup and the question just
\* answered was not itself a follow-up; otherwise it is "next_question".
C3_FollowupPolicy ==
    (pa_ret # None /\ The(pa_ret).evaluation # None) =>
        LET r == The(pa_ret)
            wanted == The(r.evaluation).needs_followup /\ The(r.question) # "followup"
        IN  /\ wanted => r.next_action = "followup"
            /\ ~wanted => r.next_action = "next_question"
            /\ r.needs_followup <=> r.next_action = "followup"

\* C3 witness: the answer to a follow-up question was scored, the evaluator asked
\* for a follow-up again, and process_answer returned "next_question".
C3_Witness ==
    /\ pa_ret # None
    /\ The(pa_ret).evaluation # None
    /\ The(The(pa_ret).evaluation).needs_followup
    /\ The(pa_ret).question = Some("followup")
    /\ The(pa_ret).next_action = "next_question"

\* C4: the number of recorded answers is at most the number of asked questions, and
\* the number of asked questions at most the number of recorded answers plus one.
C4_AnswersTrackQuestions ==
    session # None =>
        /\ Len(The(session).answers) <= Len(The(session).questions)
        /\ Len(The(session).questions) <= Len(The(session).answers) + 1

\* C5: whenever the session's phase is COMPLETED its final evaluation exists, its
\* verdict is the band of its overall score, its aggregated metrics are the aggregate
\* of the evaluation history, and its answer counts are the number of recorded answers.
C5_CompletedHasFinalEvaluation ==
    (session # None /\ The(session).state = "COMPLETED") =>
        /\ The(session).final_evaluation # None
        /\ LET s == The(session)
               final == The(s.final_evaluation)
           IN  /\ final.verdict = determine_verdict(final.overall_score)
               /\ final.aggregated_metrics =
                      aggregate_evaluations(Evaluations(s.evaluation_history))
               /\ final.total_answers = Len(s.answers)
               /\ final.insights.total_answers = Len(s.answers)

\* C6: once the final evaluation of a session is set, no later message for that
\* session (any message but the START_INTERVIEW that replaces the session) changes it.
C6_FinalEvaluationWrittenOnce ==
    [][(/\ session # None
        /\ The(session).final_evaluation # None
        /\ inbound' # Some("START_INTERVIEW"))
       => The(session').final_evaluation = The(session).final_evaluation]_vars

\* C7: once the session's phase is COMPLETED, a later TRANSCRIBE, SILENCE_DETECTED,
\* END_INTERVIEW or PING leaves its phase, questions, answers, evaluation history,
\* scores and final evaluation unchanged.
C7_CompletedIsReadOnly ==
    [][(/\ session # None
        /\ The(session).state = "COMPLETED"
        /\ inbound' # Some("START_INTERVIEW"))
       => /\ The(session').state = The(session).state
          /\ The(session').questions = The(session).questions
          /\ The(session').answers = The(session).answers
          /\ The(session').evaluation_history = The(session).evaluation_history
          /\ The(session').scores = The(session).scores
          /\ The(session').final_evaluation = The(session).final_evaluation]_vars

\* C8: when complete_interview has returned, the machine is in COMPLETED and its
\* transition log ends with the entries into FINAL_EVALUATION, REPORT and COMPLETED.
C8_CompletionReachesCompleted ==
    completed =>
        LET m == The(orchestrator).state_machine
            h == m.transition_history
        IN  /\ m.current_state = "COMPLETED"
            /\ Len(h) >= 3
            /\ h[Len(h) - 2].to = "FINAL_EVALUATION"
            /\ h[Len(h) - 1].to = "REPORT"
            /\ h[Len(h)].to = "COMPLETED"

\* C9: complete_interview attempts each of the transitions to FINAL_EVALUATION, to
\* REPORT and to COMPLETED, whether or not an earlier one was rejected.
C9_EachCompletionTransitionAttempted ==
    completed =>
        \A t \in {"FINAL_EVALUATION", "REPORT", "COMPLETED"} :
            \E i \in 1..Len(sm_calls) : sm_calls[i].target = t

\* C10: when process_answer has scored a non-empty answer, the machine is in state
\* EVALUATE when it returns.
C10_ScoredAnswerEndsInEvaluate ==
    (pa_ret # None /\ The(pa_ret).evaluation # None) => The(pa_ret).state = "EVALUATE"

\* C11: the session's evaluation history has one record per recorded answer, and
\* conversation memory one (question, answer) pair per recorded answer.
C11_OneRecordPerAnswer ==
    Stored =>
        /\ Len(The(session).evaluation_history) = Len(The(session).answers)
        /\ Len(The(orchestrator).conversation_history) = Len(The(session).answers)

\* C12: process_answer with an empty answer buffer changes nothing of the session or
\* the orchestrator, calls no transition_to, does not raise whatever the collaborator
\* would do, and returns next_action "next_question" with needs_followup false.
C12_EmptyBufferIsNoOp ==
    Stored =>
        \A evaluation \in Outcomes(SimpleResults, TRUE) :
            LET w == [Current EXCEPT !.o.current_answer_buffer = <<>>]
                r == process_answer(w, evaluation)
            IN  /\ r.s = w.s
                /\ r.o = w.o
                /\ r.sm_calls = <<>>
                /\ ~r.exc
                /\ The(r.pa_ret).next_action = "next_question"
                /\ ~The(r.pa_ret).needs_followup
                /\ The(r.pa_ret).evaluation = None

\* C12 witness: a handler called process_answer with an empty buffer on a session
\* that has a question, and it returned without scoring.
C12_Witness ==
    /\ Stored
    /\ pa_ret # None
    /\ The(pa_ret).evaluation = None
    /\ The(pa_ret).next_action = "next_question"
    /\ The(session).questions # <<>>
    /\ inbound = Some("SILENCE_DETECTED")

\* The original (counter-advancing) questions among the asked ones.
Originals(questions) == { i \in 1..Len(questions) : questions[i] # "followup" }

\* C13: a follow-up is appended to the question list and leaves the main question
\* counter unchanged, and the next original question gets the counter of the last
\* original question plus one: the counter is the number of original questions asked.
C13_FollowupKeepsCounter ==
    Stored =>
        LET s == The(session)
            f == generate_followup_question(Current, TRUE)
            n == generate_next_question(f, TRUE)
        IN  /\ s.current_question_number = Cardinality(Originals(s.questions))
            /\ s.questions # <<>> =>
                   /\ f.s.questions = Append(s.questions, "followup")
                   /\ f.s.current_question_number = s.current_question_number
                   /\ should_continue(f) =>
                          /\ n.s.questions = Append(f.s.questions, "next")
                          /\ n.s.current_question_number = s.current_question_number + 1

\* C13 witness: a follow-up was asked after the first question and the next original
\* question after it, which is question number 2.
C13_Witness ==
    /\ Stored
    /\ The(session).questions = <<"first", "followup", "next">>
    /\ The(session).current_question_number = 2
    /\ Last(outbox) = QuestionMessage("next", 2, The(session).question_count)

\* The error code of the last message sent, or "" when the last message is no error.
LastError(box) ==
    IF box # <<>> /\ Last(box).type = "ERROR" THEN Last(box).error_code ELSE ""

\* What C14 says a failed collaborator call leaves alone.
Untouched(s1, o1, s0, o0) ==
    /\ o1.state_machine = o0.state_machine
    /\ o1.conversation_history = o0.conversation_history
    /\ o1.current_difficulty = o0.current_difficulty
    /\ s1.questions = s0.questions
    /\ s1.answers = s0.answers
    /\ s1.evaluation_history = s0.evaluation_history
    /\ s1.current_question_number = s0.current_question_number

\* C14: when a collaborator call fails while a message is handled, the state machine,
\* conversation memory, difficulty level and the session's questions, answers,
\* evaluation records and counter are as they were before the message (for a
\* START_INTERVIEW: as the new session and its new orchestrator were constructed).
C14_FailureLeavesStateUntouched ==
    [][/\ (/\ Stored
           /\ inbound' \in {Some("TRANSCRIBE"), Some("SILENCE_DETECTED")}
           /\ LastError(outbox') \in {"TRANSCRIBE_ERROR", "SILENCE_DETECTED_ERROR"})
          => Untouched(The(session'), The(orchestrator'),
                       The(session), The(orchestrator))
       /\ (/\ inbound' = Some("START_INTERVIEW")
           /\ LastError(outbox') = "START_INTERVIEW_ERROR"
           /\ session' # None
           /\ session' # session)
          => Untouched(The(session'), The(orchestrator'),
                       NewSession(The(session').question_count), NewOrchestrator)]_vars

TypesOf(box) == { box[i].type : i \in 1..Len(box) }

\* C15: when a collaborator call fails while an inbound message is handled, the
\* client receives an ERROR with the handler's error code as the last message of
\* that turn, receives no question for it, receives no score other than those of
\* an evaluation record the turn stored, and the session record is stored.
C15_FailureSurfacesError ==
    failed =>
        /\ session # None
        /\ outbox # <<>>
        /\ Last(outbox).type = "ERROR"
        /\ Last(outbox).error_code \in
               {"START_INTERVIEW_ERROR", "TRANSCRIBE_ERROR", "SILENCE_DETECTED_ERROR"}
        /\ Last(outbox).error_code = The(inbound) \o "_ERROR"
        /\ "question" \notin TypesOf(outbox)
        /\ \A i \in 1..Len(outbox) :
               outbox[i].type = "EVALUATION_UPDATE" =>
                   /\ The(session).evaluation_history # <<>>
                   /\ outbox[i].scores = Last(The(session).evaluation_history).metrics

C15_Witness == failed /\ inbound = Some("TRANSCRIBE") /\ Last(outbox).type = "ERROR"
    /\ Last(outbox).error_code = "TRANSCRIBE_ERROR" /\ The(session).questions # <<>>

\* The run w with the orchestrator's machine in the state q.
InMachineState(w, q) == [w EXCEPT !.o.state_machine = NewStateMachine(q)]

\* The dictionary process_answer returned, without the machine state noted with it.
Returned(w) ==
    IF w.pa_ret = None THEN None ELSE Some([The(w.pa_ret) EXCEPT !.state = ""])

\* Two runs differ at most in the machine and in the log of its calls.
SameUpdates(a, b) ==
    /\ a.s = b.s
    /\ [a.o EXCEPT !.state_machine = b.o.state_machine] = b.o
    /\ a.exc = b.exc /\ a.failed = b.failed
    /\ a.ret = b.ret /\ Returned(a) = Returned(b) /\ a.completed = b.completed

AllAccepted(w) == \A i \in 1..Len(w.sm_calls) : w.sm_calls[i].ok

\* C16: no orchestrator operation raises or stops early because the machine
\* rejected a transition: from every machine state each of the five operations
\* leaves the session, the orchestrator's other fields, its return value and its
\* exception exactly as from a machine state that accepts its transitions, and
\* raises only when its collaborator fails.
C16_RejectionIsSwallowed ==
    Stored =>
        /\ \A ok \in BOOLEAN :
               LET first == generate_first_question(InMachineState(Current, "SETUP"), ok)
                   next == generate_next_question(InMachineState(Current, "NEXT_QUESTION"), ok)
                   followup == generate_followup_question(InMachineState(Current, "EVALUATE"), ok)
               IN  /\ AllAccepted(first) /\ AllAccepted(next) /\ AllAccepted(followup)
                   /\ first.exc = ~ok /\ (next.exc => ~ok) /\ (followup.exc => ~ok)
                   /\ \A q \in InterviewState :
                          LET v == InMachineState(Current, q)
                          IN  /\ SameUpdates(generate_first_question(v, ok), first)
                              /\ SameUpdates(generate_next_question(v, ok), next)
                              /\ SameUpdates(generate_followup_question(v, ok), followup)
        /\ \A evaluation \in Outcomes(SimpleResults, TRUE) :
               LET answer == process_answer(InMachineState(Current, "TRANSCRIBE"), evaluation)
               IN  /\ AllAccepted(answer)
                   /\ answer.exc => evaluation = None
                   /\ \A q \in InterviewState :
                          SameUpdates(process_answer(InMachineState(Current, q), evaluation),
                                      answer)
        /\ LET complete == complete_interview(InMachineState(Current, "EVALUATE"))
           IN  /\ AllAccepted(complete)
               /\ ~complete.exc /\ complete.completed
               /\ The(session).evaluation_history # <<>> => complete.s.final_evaluation # None
               /\ \A q \in InterviewState :
                      SameUpdates(complete_interview(InMachineState(Current, q)), complete)

C16_Witness == Stored /\ completed /\ The(session).final_evaluation # None
    /\ \E i \in 1..Len(sm_calls) : ~sm_calls[i].ok

\* C17: the handle of a connection leaves the registry only in a step of a
\* transport event (a write on a broken socket, the socket closing, shutdown),
\* and the receive loop ends only when the socket has closed; no handler
\* outcome on an open socket removes the handle or ends the loop.
C17_OnlyTransportDisconnects ==
    [][/\ (connection /\ ~connection') =>
              \/ socket = "broken"
              \/ inbound' = Some("SHUTDOWN")
       /\ (receiving /\ ~receiving') =>
              socket = "broken" /\ inbound' = Some("DISCONNECT")
       /\ (socket = "open" /\ inbound' # Some("SHUTDOWN")) =>
              (connection => connection') /\ (receiving => receiving')]_vars

C17_Witness == connection /\ receiving /\ disconnects = 0 /\ ~has_orchestrators
    /\ session # None /\ inbound = Some("SILENCE_DETECTED") /\ well_formed
    /\ LastError(outbox) = "SILENCE_DETECTED_ERROR"

\* C18: an inbound message that fails validation (not JSON, not an object, of
\* unknown type, or rejected by its message model) gets exactly one ERROR message
\* when the client can be written to, and leaves the session table, the stored
\* session record and the orchestrator as they were.
C18_MalformedLeavesSessions ==
    [][~well_formed' =>
          /\ session' = session
          /\ orchestrator' = orchestrator
          /\ (connection /\ socket = "open") =>
                 /\ Len(outbox') = 1
                 /\ LastError(outbox') \in
                        {"INVALID_JSON", "HANDLER_ERROR", "UNKNOWN_MESSAGE_TYPE",
                         "START_INTERVIEW_ERROR", "TRANSCRIBE_ERROR",
                         "SILENCE_DETECTED_ERROR"}]_vars

C18_Witness == ~well_formed /\ session # None /\ The(session).questions # <<>>
    /\ inbound = Some("SILENCE_DETECTED") /\ LastError(outbox) = "SILENCE_DETECTED_ERROR"

\* C19: a well-formed TRANSCRIBE or SILENCE_DETECTED for a stored session whose id
\* has no orchestrator, arriving on an open socket, leaves the session record
\* (its phase included) and the connection table as they were.
C19_UnregisteredIsDropped ==
    [][(/\ inbound' \in {Some("TRANSCRIBE"), Some("SILENCE_DETECTED")}
        /\ well_formed'
        /\ session # None /\ orchestrator = None
        /\ socket = "open")
       => /\ session' = session
          /\ connection' = connection]_vars

C21_SendKeepsSession ==
    LET r == send(Run(session, orchestrator), [type |-> "PONG"])
    IN  /\ ~r.exc
        /\ r.s = session
        /\ (~connection \/ socket = "broken") => ~r.conn /\ r.outbox = <<>>
        /\ (connection /\ socket = "open") => r.conn /\ r.outbox = <<[type |-> "PONG"]>>

C21_Witness == disconnects = 1 /\ ~connection /\ receiving /\ socket = "broken"
    /\ inbound = Some("PING") /\ outbox = <<>>
    /\ session # None /\ The(session).questions # <<>>

\* What the manager holds under an id, with the id's socket.
EntriesOf(r, id) ==
    [active_connections |-> r.active_connections[id],
     sockets |-> r.sockets[id],
     sessions |-> r.sessions[id],
     orchestrators |-> r.orchestrators[id]]

\* C22: sessions are independent under interleaving: a step for one session id
\* (its connect, any of its inbound messages with any collaborator outcome, its
\* socket breaking, its disconnect) leaves the connection handle, the session
\* record and the orchestrator (state machine and conversation memory included)
\* of every other id as they were.
C22_SessionsAreIndependent ==
    [][\A id \in Ids :
          registry'.session_id = Some(id) =>
              \A other \in Ids \ {id} :
                  EntriesOf(registry', other) = EntriesOf(registry, other)]_vars

C22_Witness ==
    /\ registry.sessions["A"] # None /\ registry.orchestrators["A"] # None
    /\ registry.sessions["B"] # None /\ registry.orchestrators["B"] # None
    /\ The(registry.sessions["A"]).question_count = 1
    /\ The(registry.sessions["A"]).state = "COMPLETED"
    /\ ~registry.active_connections["A"] /\ registry.sockets["A"] = "closed"
    /\ registry.active_connections["B"] /\ registry.sockets["B"] = "open"
    /\ The(registry.sessions["B"]).questions # <<>>
    /\ The(registry.sessions["B"]).state = "ASK_QUESTION"
    /\ The(registry.orchestrators["A"]).conversation_history # <<>>
    /\ registry.session_id = Some("A")

\* The difficulty the ramp names for the n-th of total original questions:
\* the first 30% easy, up to 70% medium, the rest hard.
Band(n, total) ==
    IF 10 * n <= 3 * total THEN "easy"
    ELSE IF 10 * n <= 7 * total THEN "medium"
    ELSE "hard"

\* C23: the difficulty recorded for the n-th original question of a session of
\* question_count questions is the ramp's band of n: easy when n <= 0.3 T,
\* medium when 0.3 T < n <= 0.7 T, hard when n > 0.7 T.
C23_DifficultyFollowsRamp ==
    (session # None /\ orchestrator # None) =>
        \A n \in 1..Len(The(orchestrator).difficulty_progression) :
            The(orchestrator).difficulty_progression[n] = Band(n, The(session).question_count)

\* The question messages among the messages a handler sent.
QuestionsIn(messages) == SelectSeq(messages, LAMBDA message : message.type = "question")

EndedAfterAllOriginals ==
    /\ session # None /\ completed /\ ~failed
    /\ Len(The(session).questions) = The(session).question_count
    /\ Len(The(session).answers) = The(session).question_count
    /\ \A i \in 1..Len(The(session).questions) : The(session).questions[i] # "followup"

\* C25: when a session of T original question/answer cycles without follow-up
\* ends, the message that ends it is the interview-complete message carrying
\* the aggregator's verdict for the session's evaluations and a report_url.
C25_CompletionCarriesVerdict ==
    EndedAfterAllOriginals =>
        /\ outbox # <<>>
        /\ outbox[Len(outbox)].type \in {"INTERVIEW_COMPLETE", "interview_complete"}
        /\ {"verdict", "report_url"} \subseteq DOMAIN outbox[Len(outbox)]
        /\ outbox[Len(outbox)].verdict =
               determine_verdict(calculate_overall_score(aggregate_evaluations(
                   Evaluations(The(session).evaluation_history))))

\* C26: after complete_interview on a session without evaluation history the
\* session's overall score is 0.
C26_NoHistoryScoresZero ==
    (session # None /\ completed /\ The(session).evaluation_history = <<>>) =>
        The(session).scores.overall_score = Some(<<0, 1>>)

\* log is an initial part of later.
IsPrefixOf(log, later) ==
    Len(log) <= Len(later) /\ \A i \in 1..Len(log) : later[i] = log[i]

\* C27: every successful transition_to appends exactly one record, from the
\* state before the call to the target, at the end of the transition log and
\* sets the target's last-entered time; and the log only grows: the log before
\* any call on the machine is a prefix of the log after it.
C27_LogIsAppendOnly ==
    [][/\ (The(tt_ret').op = "transition_to" /\ The(tt_ret').ok) =>
             /\ machine'.transition_history =
                    Append(machine.transition_history,
                           [from |-> machine.current_state, to |-> The(tt_ret').target])
             /\ machine'.state_entry_times[The(tt_ret').target] =
                    Len(machine'.transition_history) + 1
       /\ IsPrefixOf(machine.transition_history, machine'.transition_history)]_vars

Announced(messages) ==
    LET updates == SelectSeq(messages, LAMBDA message : message.type = "STATE_UPDATE")
    IN  [i \in 1..Len(updates) |-> updates[i].state]

\* Every change along the sequence of phases is in the transition table.
LegalPath(phases) ==
    \A i \in 1..(Len(phases) - 1) :
        phases[i + 1] # phases[i] => phases[i + 1] \in VALID_TRANSITIONS(phases[i])

\* C29: every change of a session's phase is a transition the table allows:
\* over a message for an existing session, the phase before it, the phases the
\* handler announced in STATE_UPDATE and the phase it left form a legal path.
C29_PhasesFollowTable ==
    [][(session # None /\ session' # None /\ inbound' # Some("START_INTERVIEW")) =>
          LegalPath(<<The(session).state>> \o Announced(outbox')
                        \o <<The(session').state>>)]_vars

\* The score stored for a returned value: the value clamped into [0, 10].
Clamped(value) == IF value > 10 THEN 10 ELSE IF value < 0 THEN 0 ELSE value

\* C30: every evaluation record of a session holds all six metrics with scores
\* in [0, 10]; and of whatever the evaluation collaborator returns, a metric
\* above 10 is stored as 10, one below 0 as 0, a missing one as 5, any other
\* as returned.
C30_StoredScoresAreClamped ==
    /\ session # None =>
           \A i \in 1..Len(The(session).evaluation_history) :
               /\ DOMAIN The(session).evaluation_history[i].metrics = Metrics
               /\ \A m \in Metrics :
                      The(session).evaluation_history[i].metrics[m] \in 0..10
    /\ \A result \in DetailedResults : \A m \in Metrics :
           evaluate_answer(result).scores[m] =
               IF m \in DOMAIN result.scores THEN Clamped(result.scores[m]) ELSE 5

C30_Witness ==
    /\ session # None
    /\ \E i \in 1..Len(The(session).evaluation_history) :
           /\ The(session).evaluation_history[i].metrics["technical_depth"] = 10
           /\ The(session).evaluation_history[i].metrics["confidence"] = 5
           /\ The(session).evaluation_history[i].metrics["culture_fit"] = 0
           /\ The(session).evaluation_history[i].metrics["communication"] = 6

\* The last call on the engine was op.
Called(op) == scoring # None /\ scoring.op = op

\* The sum of metric m over the evaluations, as the caller's own arithmetic.
RECURSIVE Total(_, _)
Total(evaluations, m) ==
    IF evaluations = <<>> THEN 0
    ELSE evaluations[1].scores[m] + Total(Tail(evaluations), m)

\* C31: aggregate_evaluations returns all six metrics for every list: 0 for each
\* when the list is empty; otherwise the mean of the metric over the list, so a
\* metric that is 10 in every evaluation aggregates to 10 whatever the length.
C31_AggregateIsMean ==
    Called("aggregate_evaluations") =>
        LET evaluations == scoring.args[1]
            N == Len(evaluations)
        IN  /\ DOMAIN scoring.ret = Metrics
            /\ \A m \in Metrics :
                   /\ N = 0 => scoring.ret[m] = <<0, 1>>
                   /\ N >= 1 => scoring.ret[m][1] * N = Total(evaluations, m) * scoring.ret[m][2]
                   /\ (N >= 1 /\ \A i \in 1..N : evaluations[i].scores[m] = 10)
                          => scoring.ret[m] = <<10, 1>>

C31_Witness ==
    /\ Called("aggregate_evaluations")
    /\ Len(scoring.args[1]) = 2
    /\ scoring.args[1][1] # scoring.args[1][2]
    /\ scoring.ret["technical_depth"] = <<10, 1>>
    /\ scoring.ret["communication"] = <<8, 1>>
    /\ scoring.ret["confidence"] = <<15, 2>>

\* C32: determine_verdict returns "Hire" iff the score is >= 7.5, "Borderline"
\* iff 6.0 <= score < 7.5 and "No-Hire" iff score < 6.0; 7.5 itself is "Hire",
\* 6.0 itself "Borderline".  (A score is numerator/denominator.)
C32_VerdictThresholds ==
    Called("determine_verdict") =>
        LET n == scoring.args[1][1]
            d == scoring.args[1][2]
        IN  /\ scoring.ret = "Hire" <=> 2 * n >= 15 * d
            /\ scoring.ret = "Borderline" <=> (n >= 6 * d /\ 2 * n < 15 * d)
            /\ scoring.ret = "No-Hire" <=> n < 6 * d
            /\ scoring.args[1] = <<15, 2>> => scoring.ret = "Hire"
            /\ scoring.args[1] = <<6, 1>> => scoring.ret = "Borderline"

C32_Witness ==
    /\ Called("determine_verdict")
    /\ scoring.args[1] = <<15, 2>>
    /\ scoring.ret = "Hire"

\* a and b are the same mapping except, at most, in metric m.
DifferOnlyIn(a, b, m) == \A other \in Metrics \ {m} : a[other] = b[other]

\* C33: calculate_overall_score is monotonic under the default weights: of two
\* mappings that differ in one metric only, the one with the larger value of
\* that metric has the overall score that is not smaller; and every overall
\* score lies in [0, 10].
C33_OverallScoreIsMonotonic ==
    [][Called("calculate_overall_score")' =>
          /\ RatLeq(<<0, 1>>, scoring'.ret) /\ RatLeq(scoring'.ret, <<10, 1>>)
          /\ Called("calculate_overall_score") =>
                 \A m \in Metrics :
                     DifferOnlyIn(scoring.args[1], scoring'.args[1], m) =>
                         /\ RatLeq(scoring.args[1][m], scoring'.args[1][m])
                                => RatLeq(scoring.ret, scoring'.ret)
                         /\ RatLeq(scoring'.args[1][m], scoring.args[1][m])
                                => RatLeq(scoring'.ret, scoring.ret)]_vars

C33_Witness ==
    /\ Called("calculate_overall_score")
    /\ \A m \in Metrics \ {"confidence"} : scoring.args[1][m] = <<12, 1>>
    /\ scoring.args[1]["confidence"] = <<-3, 1>>
    /\ scoring.ret = <<10, 1>>

\* C34: the aggregation functions are pure and deterministic: what a call
\* returns is decided by its arguments alone, whichever process makes the call
\* (strongest and weakest metric under ties and the two tag lists included).
C34_ResultDependsOnArgumentsOnly ==
    /\ Called("aggregate_evaluations") =>
           scoring.ret = aggregate_evaluations(scoring.args[1])
    /\ Called("calculate_overall_score") =>
           scoring.ret = calculate_overall_score(scoring.args[1])
    /\ Called("determine_verdict") =>
           scoring.ret = determine_verdict(scoring.args[1])
    /\ Called("generate_evaluation_insights") =>
           \A hash_order \in HashOrders :
               scoring.ret = insights(scoring.args[1], scoring.args[2], hash_order)

\* C35: whenever is_terminal_state() is true no transition is left: every
\* transition_to call made in that state fails.
C35_TerminalHasNoWayOut ==
    is_terminal_state(machine) =>
        \A target_state \in InterviewState : ~transition_to(machine, target_state).ok

\* C36: with a question_count of at least 1 and collaborators that succeed, the
\* handle_user_answer calls made after generate_first_question end the interview
\* within 2 * question_count calls, whatever the evaluations say about follow-ups:
\* every call returns, a call before the end returns a next question, and the
\* last one reports is_interview_complete.
C36_EndsWithinTwiceTheQuestions ==
    (api # None /\ api.calls > 0) =>
        /\ api.result # None
        /\ The(api.result).is_interview_complete = completed
        /\ ~completed => The(api.result).next_question # None
        /\ api.calls <= 2 * The(session).question_count
        /\ api.calls = 2 * The(session).question_count => completed

\* The longest interview: a follow-up after every original question.
C36_Witness ==
    /\ api # None
    /\ The(session).question_count >= 2
    /\ api.calls = 2 * The(session).question_count
    /\ completed
    /\ The(api.result).is_interview_complete
    /\ The(session).questions = <<"first", "followup", "next", "followup">>

\* C37: in a session of question_count T the main question counter stays in
\* 0..T and never decreases while the session lives (a START_INTERVIEW makes a
\* new session); it is 0 exactly while no question has been asked, every question
\* message carries an index in 1..T, and at most T original questions are asked.
C37_CounterStaysInRange ==
    [][session' # None =>
          LET s == The(session')
          IN  /\ s.current_question_number \in 0..s.question_count
              /\ (s.current_question_number = 0) = (s.questions = <<>>)
              /\ Cardinality(Originals(s.questions)) <= s.question_count
              /\ \A i \in 1..Len(QuestionsIn(outbox')) :
                     QuestionsIn(outbox')[i].index \in 1..QuestionsIn(outbox')[i].total
              /\ (session # None /\ inbound' # Some("START_INTERVIEW"))
                     => s.current_question_number >= The(session).current_question_number]_vars

\* The last original question of a session of two, asked after a follow-up.
C37_Witness ==
    /\ session # None
    /\ The(session).question_count = 2
    /\ The(session).current_question_number = 2
    /\ The(session).questions = <<"first", "followup", "next">>
    /\ QuestionsIn(outbox) = <<QuestionMessage("next", 2, 2)>>

\* C38: with two connections open under one session id, the second's handle
\* having replaced the first's, the disconnect that the closing of the first
\* causes leaves the second's handle in place: the id is still connected and
\* its messages go to the second connection.
C38_ClosingFirstKeepsSecond ==
    [][\A c \in Connections : \A d \in Connections \ {c} :
          (/\ endpoints'.op = <<"disconnect", c>>
           /\ endpoints.handle = Some(d)
           /\ endpoints.peer[d] = "open")
          => /\ endpoints'.handle = Some(d)
             /\ send_personal_message(endpoints').delivered[d] = endpoints'.delivered[d] + 1]_vars

\* The transition log is a path of the table that ends at the current state.
ChainedLog(m) ==
    LET log == m.transition_history
    IN  /\ \A i \in 1..Len(log) : log[i].to \in VALID_TRANSITIONS(log[i].from)
        /\ \A i \in 1..(Len(log) - 1) : log[i + 1].from = log[i].to
        /\ log # <<>> => log[Len(log)].to = m.current_state

\* C39: on a state machine driven by transition_to only, the transition log is
\* a legal path: every record is a pair of the table, each record starts where
\* the one before it ended, the last one ends at current_state, and the first
\* one starts at the initial state, which is the current state for as long as
\* the log is empty.
C39_LogIsLegalPath ==
    [][/\ ChainedLog(machine) /\ ChainedLog(machine')
       /\ machine'.transition_history = <<>> => machine'.current_state = machine.current_state
       /\ machine'.transition_history # <<>> =>
              machine'.transition_history[1].from =
                  IF machine.transition_history = <<>> THEN machine.current_state
                  ELSE machine.transition_history[1].from]_vars

\* A machine built in SETUP after two transitions and a rejected call in ERROR.
C39_Witness ==
    /\ machine.transition_history =
           <<[from |-> "SETUP", to |-> "ASK_QUESTION"],
             [from |-> "ASK_QUESTION", to |-> "ERROR"]>>
    /\ machine.current_state = "ERROR"
    /\ tt_ret # None /\ ~The(tt_ret).ok

\* C40: after any sequence of inbound messages of a session, through the final
\* TRANSCRIBE and the SILENCE_DETECTED answer paths, the conversation memory has
\* one (question, answer) pair per recorded session answer, in the same order
\* and with the same answer text; and the answer buffer is empty after every
\* message that recorded an answer.
C40_MemoryPairsWithAnswers ==
    [][(session' # None /\ orchestrator' # None) =>
          LET s == The(session')
              o == The(orchestrator')
          IN  /\ Len(o.conversation_history) = Len(s.answers)
              /\ \A i \in 1..Len(s.answers) :
                     /\ Len(o.conversation_history[i]) = 2
                     /\ o.conversation_history[i][2] = s.answers[i]
              /\ (session # None /\ Len(s.answers) > Len(The(session).answers))
                     => o.current_answer_buffer = <<>>]_vars

\* Two answers recorded, one through each path: the final TRANSCRIBE path left
\* a quality score, the SILENCE_DETECTED path an evaluation record.
C40_Witness ==
    /\ Stored
    /\ Len(The(session).answers) = 2
    /\ Len(The(orchestrator).conversation_history) = 2
    /\ Len(The(session).evaluation_history) = 1
    /\ The(session).scores.answer_quality # None
    /\ Len(The(The(session).scores.answer_quality)) = 1
    /\ The(orchestrator).current_answer_buffer = <<>>

====
